---- MODULE Spec2Model ----
(***************************************************************************)
(* A state-machine model of the invader game: the GameEngine frame loop,   *)
(* the InputManager, the entity registry (GameEngine.gameObjects), the     *)
(* entities' update and onCollision responses, the CollisionSystem with    *)
(* its SpatialGrid, the SceneManager and the LevelManager.                 *)
(*                                                                         *)
(* Numbers.  Time is counted in units of 1/TimePerMs milliseconds, so that *)
(* the frame interval 1000/60 ms is the integer FrameInterval.  Lengths    *)
(* are counted in units of 1/SubPx pixel and velocities in units of        *)
(* 1/VelPerPx pixel per second, so that x += vx * (dt / 1000) is exact for *)
(* the bullets', the enemies' and the player's velocities and the tick     *)
(* lengths the model uses.  Where the code computes with fractions the      *)
(* units cannot hold (the pickup's gravity, friction and magnetism, the     *)
(* spread weapon's angles), the result is rounded down to the unit.         *)
(*                                                                         *)
(* Specifications.  SpecGrid rebuilds the SpatialGrid over two objects     *)
(* and queries it.  SpecDispatch hands pairs of objects to                 *)
(* handleCollision.  Spec runs gameLoop, one step of update() at a time,   *)
(* with the key, blur and timer events between the ticks, from a level in  *)
(* play.  SpecPickup runs the player-pickup category on a player and a     *)
(* pickup at distances around its thresholds.  SpecScheduler adds the      *)
(* calls of start() and stop() to the loop of a level in play; SpecLoop    *)
(* runs the same loop from the engine as constructed, under the fairness   *)
(* of the browser's frame callbacks.  SpecOverlap puts two objects side by *)
(* side and asks checkCollision and collidesWith.  SpecPass runs one       *)
(* collision pass on a crowded spot around the player.  SpecLevel runs     *)
(* the loop from the end of the last level through the level transition    *)
(* and the end screens.  SpecWeapon, SpecLives and SpecShooting call the   *)
(* weapon manager, the game state manager and the enemies' shooting on     *)
(* their own.  SpecResume runs the loop from the pause scene of a game in  *)
(* progress, SpecSession from the page load on, with the object that       *)
(* initGame registers.  The canvas (800 x 600 in the page that hosts the   *)
(* game) is a parameter of the model.                                      *)
(***************************************************************************)
EXTENDS Integers, Sequences, FiniteSets, TLC

\* ------------------------------------------------------------------ scales
TimePerMs == 3
SubPx == 6

VelPerPx == 10

Ms(n) == n * TimePerMs
Px(n) == n * SubPx
Vel(n) == n * VelPerPx

\* v * (deltaTime / 1000) for a velocity v and a time dt, as a length
Travel(v, dt) == (v * dt * SubPx) \div (1000 * TimePerMs * VelPerPx)

\* --------------------------------------------------------- program numbers
TargetFPS == 60
FrameInterval == (1000 * TimePerMs) \div TargetFPS

CanvasWidth == 800
CanvasHeight == 600
Width == Px(CanvasWidth)
Height == Px(CanvasHeight)

GridCellPx == 64
PickupMargin == 10
PickupNearPx == 30

Min(a, b) == IF a < b THEN a ELSE b
Max(a, b) == IF a > b THEN a ELSE b
CeilDiv(a, b) == (a + b - 1) \div b
Abs(a) == IF a < 0 THEN 0 - a ELSE a

SeqToSet(s) == {s[i] : i \in 1 .. Len(s)}

Contains(s, e) == \E i \in 1..Len(s) : s[i] = e

\* ------------------------------------------------------------ the objects
\* One record shape for every registry entry; a class reads only its own
\* fields.  cls is the constructor (what instanceof tests), "System" the
\* plain gameSystemManager object that initGame registers.
BaseObject(cls, x, y) ==
    [cls |-> cls, x |-> x, y |-> y, vx |-> 0, vy |-> 0,
     width |-> Px(20), height |-> Px(20),
     active |-> TRUE, shouldDestroy |-> FALSE,
     health |-> 0, damage |-> 0,
     isPlayerBullet |-> FALSE, piercing |-> FALSE,
     pierceCount |-> 0, maxPierceCount |-> 0,
     invulnerable |-> FALSE, invulnerabilityTime |-> 0,
     speed |-> 0, direction |-> 1, age |-> 0,
     canShoot |-> FALSE, shootCooldown |-> 0, shootCooldownTime |-> 0,
     enemyType |-> "none", points |-> 0, hasWeapon |-> FALSE,
     weaponIndex |-> 0, weaponLevel |-> 1,
     weaponDamage |-> 0, fireRate |-> 0, bulletSpeed |-> 0]

PlayerSpeed == 300
PlayerMaxHealth == 3
InvulnerabilityMs == 2000

NewPlayer(x, y) ==
    [BaseObject("Player", x, y) EXCEPT
        !.speed = Vel(PlayerSpeed), !.health = PlayerMaxHealth, !.canShoot = TRUE]

EnemyBaseSpeed == 50
EnemySizePx == 16
\* the shortest of the cooldowns 2000 + Math.random() * 3000 ms
EnemyCooldownMs == 2000
StrongEnemySizePx == 20

EnemyPoints(enemyType) ==
    CASE enemyType = "fast" -> 20
      [] enemyType = "strong" -> 30
      [] enemyType = "shooter" -> 15
      [] OTHER -> 10

NewEnemy(x, y, enemyType) ==
    [BaseObject("Enemy", x, y) EXCEPT
        !.width = IF enemyType = "strong" THEN Px(StrongEnemySizePx) ELSE Px(EnemySizePx),
        !.height = IF enemyType = "strong" THEN Px(StrongEnemySizePx) ELSE Px(EnemySizePx),
        !.speed = IF enemyType = "fast" THEN (Vel(EnemyBaseSpeed) * 3) \div 2
                  ELSE Vel(EnemyBaseSpeed),
        !.enemyType = enemyType, !.points = EnemyPoints(enemyType),
        !.canShoot = TRUE,
        !.shootCooldownTime = Ms(EnemyCooldownMs),
        !.health = IF enemyType = "strong" THEN 2 ELSE 1]

BulletWidthPx == 4
BulletHeightPx == 8
EnemyBulletSpeed == 200

NewBullet(x, y, vx, vy, isPlayerBullet) ==
    [BaseObject("Bullet", x, y) EXCEPT
        !.width = Px(BulletWidthPx), !.height = Px(BulletHeightPx),
        !.vx = vx, !.vy = vy,
        !.isPlayerBullet = isPlayerBullet, !.damage = 1]

\* Weapon.createBullet for the weapon of player p
WeaponBullet(p, x, y, vx, vy) ==
    [NewBullet(x, y, vx, vy, TRUE) EXCEPT
        !.damage = p.weaponDamage,
        !.width = Px(IF p.weaponIndex = 3 THEN 6 ELSE IF p.weaponIndex = 0 THEN 4 ELSE 3),
        !.height = Px(IF p.weaponIndex = 3 THEN 6 ELSE IF p.weaponIndex = 0 THEN 4 ELSE 3),
        !.piercing = (p.weaponIndex = 3),
        !.maxPierceCount = IF p.weaponIndex = 3 THEN 3 ELSE 0]

PickupSizePx == 16
PickupLifetimeMs == 15000
PickupVy == 30

\* the constructor's vx = (Math.random() - 0.5) * 50 is set by the caller
NewWeaponPickup(x, y) ==
    [BaseObject("WeaponPickup", x, y) EXCEPT
        !.width = Px(PickupSizePx), !.height = Px(PickupSizePx),
        !.vy = 0 - Vel(PickupVy)]

\* instanceof GameObject: every class but the plain system object
IsGameObject(o) == o.cls # "System"

\* GameObject.destroy
Destroyed(o) == [o EXCEPT !.shouldDestroy = TRUE, !.active = FALSE]

\* GameObject.getBounds
GetBounds(o) ==
    [left |-> o.x - o.width \div 2, right |-> o.x + o.width \div 2,
     top |-> o.y - o.height \div 2, bottom |-> o.y + o.height \div 2]

\* ---------------------------------------------------------- narrow phase
\* GameObject.collidesWith(other), for this = o1
CollidesWith(o1, o2) ==
    LET thisLeft == o1.x - o1.width \div 2
        thisRight == o1.x + o1.width \div 2
        thisTop == o1.y - o1.height \div 2
        thisBottom == o1.y + o1.height \div 2
        otherLeft == o2.x - o2.width \div 2
        otherRight == o2.x + o2.width \div 2
        otherTop == o2.y - o2.height \div 2
        otherBottom == o2.y + o2.height \div 2
    IN IF ~o1.active \/ ~o2.active THEN FALSE
       ELSE ~(thisRight < otherLeft \/ thisLeft > otherRight
              \/ thisBottom < otherTop \/ thisTop > otherBottom)

\* a mutant of CheckAABBCollision: boxes that only touch are apart
CheckAABBCollisionStrict(o1, o2) ==
    LET b1 == GetBounds(o1)
        b2 == GetBounds(o2)
    IN ~(b1.right <= b2.left \/ b1.left >= b2.right
         \/ b1.bottom <= b2.top \/ b1.top >= b2.bottom)

\* CollisionSystem.checkAABBCollision
CheckAABBCollision(o1, o2) ==
    LET b1 == GetBounds(o1)
        b2 == GetBounds(o2)
    IN ~(b1.right < b2.left \/ b1.left > b2.right
         \/ b1.bottom < b2.top \/ b1.top > b2.bottom)

DistSq(o1, o2) == (o1.x - o2.x) * (o1.x - o2.x) + (o1.y - o2.y) * (o1.y - o2.y)

IsPickupPair(o1, o2) ==
    \/ (o1.cls = "WeaponPickup" /\ o2.cls = "Player")
    \/ (o1.cls = "Player" /\ o2.cls = "WeaponPickup")

\* distance < radius1 + radius2, compared on the squares (both sides >= 0)
CheckCircleCollision(o1, o2) ==
    LET r1 == Max(o1.width, o1.height) \div 2
              + (IF o1.cls = "WeaponPickup" THEN Px(PickupMargin) ELSE 0)
        r2 == Max(o2.width, o2.height) \div 2
              + (IF o2.cls = "WeaponPickup" THEN Px(PickupMargin) ELSE 0)
    IN DistSq(o1, o2) < (r1 + r2) * (r1 + r2)

\* a mutant of CheckCollision: the shape test alone
CheckCollisionOfShapes(o1, o2) ==
    IF IsPickupPair(o1, o2) THEN CheckCircleCollision(o1, o2)
    ELSE CheckAABBCollision(o1, o2)

\* CollisionSystem.checkCollision(obj1, obj2)
CheckCollision(o1, o2) ==
    IF ~o1.active \/ ~o2.active THEN FALSE
    ELSE IF IsPickupPair(o1, o2) THEN CheckCircleCollision(o1, o2)
    ELSE CheckAABBCollision(o1, o2)

\* ---------------------------------------------------------- spatial grid
CellSize == Px(GridCellPx)
Cols == CeilDiv(Width, CellSize)
Rows == CeilDiv(Height, CellSize)
CellIndexes == 0 .. (Rows * Cols - 1)

\* SpatialGrid.clear
EmptyGrid == [i \in CellIndexes |-> <<>>]

\* a mutant of StartCol: the first column without the clamp to the grid
StartColUnclamped(b) == b.left \div CellSize

StartCol(b) == Max(0, b.left \div CellSize)
EndCol(b) == Min(Cols - 1, b.right \div CellSize)
StartRow(b) == Max(0, b.top \div CellSize)
EndRow(b) == Min(Rows - 1, b.bottom \div CellSize)

\* the cell indexes of the loops of insert and getNearbyObjects, in loop
\* order (rows outside, columns inside)
RECURSIVE CellsFrom(_, _, _, _, _)
CellsFrom(row, col, startCol, endCol, endRow) ==
    IF row > endRow \/ startCol > endCol THEN <<>>
    ELSE IF col > endCol THEN CellsFrom(row + 1, startCol, startCol, endCol, endRow)
    ELSE <<row * Cols + col>> \o CellsFrom(row, col + 1, startCol, endCol, endRow)

\* a mutant of InsertCells: only the cell of the top-left corner
InsertCellsCornerOnly(b) ==
    CellsFrom(StartRow(b), StartCol(b), StartCol(b),
              Min(EndCol(b), StartCol(b)), Min(EndRow(b), StartRow(b)))

\* the cells insert pushes the object into
InsertCells(b) ==
    CellsFrom(StartRow(b), StartCol(b), StartCol(b), EndCol(b), EndRow(b))

\* the cells getNearbyObjects reads
QueryCells(b) ==
    CellsFrom(StartRow(b), StartCol(b), StartCol(b), EndCol(b), EndRow(b))

\* SpatialGrid.insert of object id with bounds b
RECURSIVE PushAll(_, _, _)
PushAll(g, cells, id) ==
    IF cells = <<>> THEN g
    ELSE PushAll([g EXCEPT ![Head(cells)] = Append(@, id)], Tail(cells), id)

GridInsert(g, id, o) == PushAll(g, InsertCells(GetBounds(o)), id)

\* a mutant of AddNearby: an array in place of the Set
RECURSIVE AddNearbyRepeating(_, _, _, _)
AddNearbyRepeating(acc, bucket, id, targets) ==
    IF bucket = <<>> THEN acc
    ELSE LET g == Head(bucket)
             acc2 == IF Contains(targets, g) /\ g # id THEN Append(acc, g) ELSE acc
         IN AddNearbyRepeating(acc2, Tail(bucket), id, targets)

\* SpatialGrid.getNearbyObjects: the Set's insertion order is the array order
RECURSIVE AddNearby(_, _, _, _)
AddNearby(acc, bucket, id, targets) ==
    IF bucket = <<>> THEN acc
    ELSE LET g == Head(bucket)
             acc2 == IF Contains(targets, g) /\ g # id /\ ~Contains(acc, g)
                     THEN Append(acc, g) ELSE acc
         IN AddNearby(acc2, Tail(bucket), id, targets)

RECURSIVE NearbyOver(_, _, _, _, _)
NearbyOver(acc, g, cells, id, targets) ==
    IF cells = <<>> THEN acc
    ELSE NearbyOver(AddNearby(acc, g[Head(cells)], id, targets),
                    g, Tail(cells), id, targets)

GetNearbyObjects(g, id, o, targets) ==
    NearbyOver(<<>>, g, QueryCells(GetBounds(o)), id, targets)

\* CollisionSystem.updateSpatialGrid: clear, then insert every active
\* GameObject of the registry, in registry order
RECURSIVE InsertAll(_, _, _)
InsertAll(g, reg, os) ==
    IF reg = <<>> THEN g
    ELSE LET id == Head(reg)
             g2 == IF os[id].active /\ IsGameObject(os[id])
                   THEN GridInsert(g, id, os[id]) ELSE g
         IN InsertAll(g2, Tail(reg), os)

UpdateSpatialGrid(reg, os) == InsertAll(EmptyGrid, reg, os)

\* ------------------------------------------------- collision responses
\* The responses read and change more than their own object, so they are
\* written over a world w: the objects (objs), the registry (reg), the
\* collision system's pair keys (pairs), the game state (gs) and the two
\* history logs.  r is what Math.random() decides during the call: the set
\* of enemies that drop a pickup when they die (r.drops) and the horizontal
\* velocity of a dropped pickup (r.pvx).

\* generateId gives every object an id no other object has
FreshId(os) == CHOOSE n \in 1 .. (Cardinality(DOMAIN os) + 1) : n \notin DOMAIN os

\* a mutant of AddGameObject: the new object goes to the front
AddGameObjectFirst(w, o) ==
    LET id == FreshId(w.objs)
    IN [w EXCEPT !.objs = (id :> o) @@ w.objs, !.reg = <<id>> \o w.reg]

\* GameEngine.addGameObject
AddGameObject(w, o) ==
    LET id == FreshId(w.objs)
    IN [w EXCEPT !.objs = (id :> o) @@ w.objs, !.reg = Append(w.reg, id)]

\* a mutant of DestroyIn: the object leaves the registry at once
DestroyAndRemove(w, id) ==
    [w EXCEPT !.objs[id] = Destroyed(@),
              !.reg = SelectSeq(@, LAMBDA other : other # id)]

\* GameObject.destroy, for the object with this id
DestroyIn(w, id) == [w EXCEPT !.objs[id] = Destroyed(@)]

\* GameStateManager.resetGameState, which is also what its constructor sets
InitialLives == 3
ResetGameState ==
    [score |-> 0, lives |-> InitialLives, level |-> 1, weaponLevel |-> 1,
     gameStatus |-> "menu"]

\* a mutant of LoseLife: the lives are not held at 0
LoseLifeUnclamped(gs, amount) ==
    [gs EXCEPT !.lives = @ - amount,
               !.gameStatus = IF gs.lives - amount <= 0 THEN "gameOver" ELSE @]

\* GameStateManager.loseLife
LoseLife(gs, amount) ==
    LET lives == Max(0, gs.lives - amount)
    IN [gs EXCEPT !.lives = lives,
                  !.gameStatus = IF lives <= 0 THEN "gameOver" ELSE @]

\* GameStateManager.gainLife
GainLife(gs, amount) == [gs EXCEPT !.lives = @ + amount]

\* GameStateManager.addScore
AddScore(gs, points) == [gs EXCEPT !.score = @ + points]

MinFireRate == 80
MaxBulletSpeed == 800

\* Weapon.upgrade(level): multiplier = 1 + (level - 1) * 0.15
UpgradedWeapon(p, level) ==
    LET m == 100 + (level - 1) * 15
    IN [p EXCEPT !.weaponDamage = (@ * m) \div 100,
                 !.fireRate = Max(MinFireRate, (@ * 100) \div m),
                 !.bulletSpeed = Min(MaxBulletSpeed, (@ * m) \div 100)]

\* new Weapon(weaponProgression[index])
WeaponDamages == <<1, 1, 1, 2>>
WeaponFireRates == <<300, 180, 350, 400>>
WeaponBulletSpeeds == <<400, 450, 380, 550>>
MaxWeaponIndex == 3
MaxWeaponLevel == 3

WithWeapon(p, index) ==
    [p EXCEPT !.weaponIndex = index,
              !.weaponDamage = WeaponDamages[index + 1],
              !.fireRate = WeaponFireRates[index + 1],
              !.bulletSpeed = WeaponBulletSpeeds[index + 1]]

\* new Player(x, y) with initWeaponSystem()
ArmedPlayer(x, y) == WithWeapon([NewPlayer(x, y) EXCEPT !.hasWeapon = TRUE], 0)

\* a mutant of WeaponManagerUpgrade: the level is not held at maxLevel
WeaponManagerUpgradeUnbounded(w, pid) ==
    LET p == w.objs[pid]
        p2 == IF p.weaponIndex < MaxWeaponIndex
              THEN WithWeapon(p, p.weaponIndex + 1)
              ELSE UpgradedWeapon([p EXCEPT !.weaponLevel = @ + 1], p.weaponLevel + 1)
    IN [w EXCEPT !.objs[pid] = p2, !.gs.weaponLevel = p2.weaponLevel]

\* WeaponManager.upgradeWeapon() without a weapon type, with its updateUI
WeaponManagerUpgrade(w, pid) ==
    LET p == w.objs[pid]
        level == Min(MaxWeaponLevel, p.weaponLevel + 1)
        p2 == IF p.weaponIndex < MaxWeaponIndex
              THEN WithWeapon(p, p.weaponIndex + 1)
              ELSE UpgradedWeapon([p EXCEPT !.weaponLevel = level], level)
    IN [w EXCEPT !.objs[pid] = p2, !.gs.weaponLevel = p2.weaponLevel]

\* Player.upgradeWeapon
PlayerUpgradeWeapon(w, pid) ==
    IF w.objs[pid].hasWeapon THEN WeaponManagerUpgrade(w, pid) ELSE w

\* a mutant of PlayerTakeDamage: no test of invulnerable
PlayerTakeDamageAlways(w, pid, damage) ==
    LET p == w.objs[pid]
        health == p.health - damage
    IN IF ~p.active THEN w
       ELSE [w EXCEPT
               !.gs = LoseLife(@, damage),
               !.objs[pid] =
                   IF health <= 0
                   THEN [p EXCEPT !.health = health, !.active = FALSE]
                   ELSE [p EXCEPT !.health = health, !.invulnerable = TRUE,
                                  !.invulnerabilityTime = Ms(InvulnerabilityMs)]]

\* Player.takeDamage, with Player.onDeath
PlayerTakeDamage(w, pid, damage) ==
    LET p == w.objs[pid]
        health == p.health - damage
    IN IF p.invulnerable \/ ~p.active THEN w
       ELSE [w EXCEPT
               !.gs = LoseLife(@, damage),
               !.objs[pid] =
                   IF health <= 0
                   THEN [p EXCEPT !.health = health, !.active = FALSE]
                   ELSE [p EXCEPT !.health = health, !.invulnerable = TRUE,
                                  !.invulnerabilityTime = Ms(InvulnerabilityMs)]]

\* Enemy.onDeath: addScore, checkWeaponDrop, destroy
EnemyOnDeath(w, eid, r) ==
    LET e == w.objs[eid]
        w1 == [w EXCEPT !.gs = AddScore(@, e.points)]
        w2 == IF eid \in r.drops
              THEN AddGameObject(w1, [NewWeaponPickup(e.x, e.y) EXCEPT !.vx = r.pvx])
              ELSE w1
    IN DestroyIn(w2, eid)

\* Enemy.takeDamage
EnemyTakeDamage(w, eid, damage, r) ==
    LET e == w.objs[eid]
        w1 == [w EXCEPT !.objs[eid].health = @ - damage]
    IN IF ~e.active THEN w
       ELSE IF e.health - damage <= 0 THEN EnemyOnDeath(w1, eid, r)
       ELSE w1

\* Player.onCollision(other)
PlayerOnCollision(w, pid, oid, r) ==
    LET o == w.objs[oid]
    IN IF o.cls = "WeaponPickup" /\ o.active
       THEN DestroyIn(PlayerUpgradeWeapon(w, pid), oid)
       ELSE IF o.cls = "Bullet" /\ ~o.isPlayerBullet
       THEN DestroyIn(PlayerTakeDamage(w, pid, 1), oid)
       ELSE IF o.cls = "Enemy" THEN PlayerTakeDamage(w, pid, 1)
       ELSE w

\* Enemy.onCollision(other)
EnemyOnCollision(w, eid, oid, r) ==
    LET o == w.objs[oid]
    IN IF o.cls = "Bullet" /\ o.isPlayerBullet
       THEN DestroyIn(EnemyTakeDamage(w, eid, o.damage, r), oid)
       ELSE IF o.cls = "Player" THEN EnemyTakeDamage(w, eid, 999, r)
       ELSE w

\* Bullet.onCollision(other)
BulletOnCollision(w, bid, oid, r) ==
    LET b == w.objs[bid]
        o == w.objs[oid]
    IN IF b.isPlayerBullet
       THEN IF o.cls = "Enemy"
            THEN LET w1 == EnemyTakeDamage(w, oid, b.damage, r)
                 IN IF b.piercing /\ b.pierceCount < b.maxPierceCount
                    THEN [w1 EXCEPT !.objs[bid].pierceCount = @ + 1]
                    ELSE DestroyIn(w1, bid)
            ELSE w
       ELSE IF o.cls = "Player"
            THEN DestroyIn(PlayerTakeDamage(w, oid, b.damage), bid)
            ELSE w

\* a mutant of WeaponPickupOnCollision: without the test of this.active
WeaponPickupOnCollisionAlways(w, kid, oid, r) ==
    IF w.objs[oid].cls = "Player"
    THEN DestroyIn(PlayerUpgradeWeapon(w, oid), kid)
    ELSE w

\* WeaponPickup.onCollision(other)
WeaponPickupOnCollision(w, kid, oid, r) ==
    IF w.objs[oid].cls = "Player" /\ w.objs[kid].active
    THEN DestroyIn(PlayerUpgradeWeapon(w, oid), kid)
    ELSE w

\* self.onCollision(other), with the call written to the history
OnCollision(w, self, other, r) ==
    LET entry == [self |-> self, other |-> other,
                  selfFlagged |-> w.objs[self].shouldDestroy,
                  otherFlagged |-> w.objs[other].shouldDestroy,
                  selfActive |-> w.objs[self].active,
                  otherActive |-> w.objs[other].active,
                  selfHealth |-> w.objs[self].health,
                  otherHealth |-> w.objs[other].health,
                  inRegistry |-> Contains(w.reg, self) /\ Contains(w.reg, other)]
        w1 == [w EXCEPT !.hookLog = Append(@, entry)]
        cls == w.objs[self].cls
    IN CASE cls = "Player" -> PlayerOnCollision(w1, self, other, r)
         [] cls = "Enemy" -> EnemyOnCollision(w1, self, other, r)
         [] cls = "Bullet" -> BulletOnCollision(w1, self, other, r)
         [] cls = "WeaponPickup" -> WeaponPickupOnCollision(w1, self, other, r)
         [] OTHER -> w

\* a mutant of BothHooks: the second hook only for a pair still active
BothHooksIfStillActive(w, id1, id2, r) ==
    LET w1 == OnCollision(w, id1, id2, r)
    IN IF w1.objs[id1].active /\ w1.objs[id2].active
       THEN OnCollision(w1, id2, id1, r) ELSE w1

\* the two hooks of handleCollision, in the order of the code
BothHooks(w, id1, id2, r) == OnCollision(OnCollision(w, id1, id2, r), id2, id1, r)

\* CollisionSystem.handleCollision(obj1, obj2)
HandleCollision(w, id1, id2, r) ==
    LET isWeaponPickup == IsPickupPair(w.objs[id1], w.objs[id2])
        pairKey == <<id1, id2>>
        call == [obj1 |-> id1, obj2 |-> id2,
                 duplicate |-> ~isWeaponPickup /\ pairKey \in w.pairs,
                 active1 |-> w.objs[id1].active, active2 |-> w.objs[id2].active]
        w1 == [w EXCEPT !.callLog = Append(@, call)]
    IN IF call.duplicate THEN w1
       ELSE BothHooks([w1 EXCEPT !.pairs = IF isWeaponPickup THEN @
                                           ELSE @ \cup {pairKey}],
                      id1, id2, r)

\* --------------------------------------------- the collision categories
ActivePlayerBullets(reg, os) ==
    SelectSeq(reg, LAMBDA id : os[id].cls = "Bullet" /\ os[id].isPlayerBullet /\ os[id].active)

ActiveEnemyBullets(reg, os) ==
    SelectSeq(reg, LAMBDA id : os[id].cls = "Bullet" /\ ~os[id].isPlayerBullet /\ os[id].active)

ActiveEnemies(reg, os) ==
    SelectSeq(reg, LAMBDA id : os[id].cls = "Enemy" /\ os[id].active)

ActivePickups(reg, os) ==
    SelectSeq(reg, LAMBDA id : os[id].cls = "WeaponPickup" /\ os[id].active)

\* a mutant of ActivePlayer: the first Player, active or not
ActivePlayerOrNot(reg, os) ==
    LET ps == SelectSeq(reg, LAMBDA id : os[id].cls = "Player")
    IN IF ps = <<>> THEN 0 ELSE Head(ps)

\* gameObjects.find(obj => obj instanceof Player && obj.active): 0 if none
ActivePlayer(reg, os) ==
    LET ps == SelectSeq(reg, LAMBDA id : os[id].cls = "Player" /\ os[id].active)
    IN IF ps = <<>> THEN 0 ELSE Head(ps)

\* candidates.forEach(c => if (checkCollision(a, c)) handleCollision(a, c))
RECURSIVE TestAgainst(_, _, _, _)
TestAgainst(w, a, candidates, r) ==
    IF candidates = <<>> THEN w
    ELSE LET c == Head(candidates)
             w1 == IF CheckCollision(w.objs[a], w.objs[c])
                   THEN HandleCollision(w, a, c, r) ELSE w
         IN TestAgainst(w1, a, Tail(candidates), r)

\* others.forEach(o => if (checkCollision(o, b)) handleCollision(o, b))
RECURSIVE TestEach(_, _, _, _)
TestEach(w, others, b, r) ==
    IF others = <<>> THEN w
    ELSE LET o == Head(others)
             w1 == IF CheckCollision(w.objs[o], w.objs[b])
                   THEN HandleCollision(w, o, b, r) ELSE w
         IN TestEach(w1, Tail(others), b, r)

\* CollisionSystem.checkPlayerBulletEnemyCollisions
RECURSIVE BulletsAgainstEnemies(_, _, _, _, _)
BulletsAgainstEnemies(w, g, bullets, enemies, r) ==
    IF bullets = <<>> THEN w
    ELSE LET b == Head(bullets)
             nearbyEnemies == GetNearbyObjects(g, b, w.objs[b], enemies)
         IN BulletsAgainstEnemies(TestAgainst(w, b, nearbyEnemies, r),
                                  g, Tail(bullets), enemies, r)

CheckPlayerBulletEnemyCollisions(w, g, r) ==
    BulletsAgainstEnemies(w, g, ActivePlayerBullets(w.reg, w.objs),
                          ActiveEnemies(w.reg, w.objs), r)

\* CollisionSystem.checkEnemyBulletPlayerCollisions
CheckEnemyBulletPlayerCollisions(w, r) ==
    LET player == ActivePlayer(w.reg, w.objs)
    IN IF player = 0 THEN w
       ELSE TestEach(w, ActiveEnemyBullets(w.reg, w.objs), player, r)

\* CollisionSystem.checkPlayerEnemyCollisions
CheckPlayerEnemyCollisions(w, r) ==
    LET player == ActivePlayer(w.reg, w.objs)
    IN IF player = 0 THEN w
       ELSE TestAgainst(w, player, ActiveEnemies(w.reg, w.objs), r)

\* CollisionSystem.checkPlayerWeaponPickupCollisions: within 30 px, or else
\* the circle test of checkCollision
RECURSIVE PlayerAgainstPickups(_, _, _, _)
PlayerAgainstPickups(w, player, pickups, r) ==
    IF pickups = <<>> THEN w
    ELSE LET k == Head(pickups)
             near == DistSq(w.objs[player], w.objs[k]) <= Px(PickupNearPx) * Px(PickupNearPx)
             w1 == IF near \/ CheckCollision(w.objs[player], w.objs[k])
                   THEN HandleCollision(w, player, k, r) ELSE w
         IN PlayerAgainstPickups(w1, player, Tail(pickups), r)

\* a mutant of CheckPlayerWeaponPickupCollisions: checkCollision alone
CheckPlayerWeaponPickupCollisionsByCircle(w, r) ==
    LET player == ActivePlayer(w.reg, w.objs)
    IN IF player = 0 THEN w
       ELSE TestAgainst(w, player, ActivePickups(w.reg, w.objs), r)

CheckPlayerWeaponPickupCollisions(w, r) ==
    LET player == ActivePlayer(w.reg, w.objs)
    IN IF player = 0 THEN w
       ELSE PlayerAgainstPickups(w, player, ActivePickups(w.reg, w.objs), r)

\* ------------------------------------------------------- entity updates
\* the integer part of the square root
RECURSIVE SqrtBetween(_, _, _)
SqrtBetween(n, lo, hi) ==
    IF lo = hi THEN lo
    ELSE LET mid == (lo + hi + 1) \div 2
         IN IF mid * mid <= n THEN SqrtBetween(n, mid, hi)
            ELSE SqrtBetween(n, lo, mid - 1)

Isqrt(n) == SqrtBetween(n, 0, Min(n, 40000))

\* GameObject.checkBounds: entirely outside the canvas
OutOfBounds(o) ==
    \/ o.x + o.width \div 2 < 0 \/ o.x - o.width \div 2 > Width
    \/ o.y + o.height \div 2 < 0 \/ o.y - o.height \div 2 > Height

\* onOutOfBounds: Player keeps, Enemy only far below the canvas, others destroy
OnOutOfBounds(o) ==
    CASE o.cls = "Player" -> o
      [] o.cls = "Enemy" -> IF o.y > Height + Px(100) THEN Destroyed(o) ELSE o
      [] OTHER -> Destroyed(o)

\* Player.checkBounds: clamped to the canvas and to the bottom band
PlayerCheckBounds(p) ==
    LET half == p.width \div 2
        x1 == IF p.x - half < 0 THEN half ELSE p.x
        vx1 == IF p.x - half < 0 THEN 0 ELSE p.vx
        x2 == IF x1 + half > Width THEN Width - half ELSE x1
        vx2 == IF x1 + half > Width THEN 0 ELSE vx1
        y1 == IF p.y > Height - Px(50) THEN Height - Px(50) ELSE p.y
        y2 == IF y1 < Height - Px(100) THEN Height - Px(100) ELSE y1
    IN [p EXCEPT !.x = x2, !.vx = vx2, !.y = y2]

\* GameObject.update(deltaTime)
GameObjectUpdate(o, dt) ==
    IF ~o.active THEN o
    ELSE LET moved == [o EXCEPT !.x = @ + Travel(o.vx, dt), !.y = @ + Travel(o.vy, dt)]
         IN IF o.cls = "Player" THEN PlayerCheckBounds(moved)
            ELSE IF OutOfBounds(moved) THEN OnOutOfBounds(moved)
            ELSE moved

\* the cooldown of Player.update and Enemy.updateShooting
CooledDown(o, dt) ==
    IF o.shootCooldown > 0
    THEN [o EXCEPT !.shootCooldown = @ - dt,
                   !.canShoot = IF o.shootCooldown - dt <= 0 THEN TRUE ELSE @]
    ELSE o

\* Weapon.fire: one bullet straight up, or three spread by 22.5 degrees
\* (sin and cos of 22.5 degrees in thousandths)
SpreadSin == 382
SpreadCos == 923

WeaponFire(p, x, y) ==
    LET v == Vel(p.bulletSpeed)
    IN IF p.weaponIndex = 2
       THEN <<WeaponBullet(p, x, y, 0 - (v * SpreadSin) \div 1000, 0 - (v * SpreadCos) \div 1000),
              WeaponBullet(p, x, y, 0, 0 - v),
              WeaponBullet(p, x, y, (v * SpreadSin) \div 1000, 0 - (v * SpreadCos) \div 1000)>>
       ELSE <<WeaponBullet(p, x, y, 0, 0 - v)>>

RECURSIVE AddAll(_, _)
AddAll(w, os) == IF os = <<>> THEN w ELSE AddAll(AddGameObject(w, Head(os)), Tail(os))

\* Player.shoot
PlayerShoot(w, pid) ==
    LET p == w.objs[pid]
    IN IF ~p.canShoot \/ ~p.hasWeapon THEN w
       ELSE AddAll([w EXCEPT !.objs[pid].canShoot = FALSE,
                             !.objs[pid].shootCooldown = Ms(p.fireRate)],
                   WeaponFire(p, p.x, p.y - p.height \div 2 - Px(5)))

\* Player.handleInput
PlayerHandleInput(w, pid, down, pressed) ==
    LET vx == IF "ArrowRight" \in down THEN w.objs[pid].speed
              ELSE IF "ArrowLeft" \in down THEN 0 - w.objs[pid].speed
              ELSE 0
        w1 == [w EXCEPT !.objs[pid].vx = vx]
    IN IF " " \in pressed /\ w1.objs[pid].canShoot THEN PlayerShoot(w1, pid) ELSE w1

\* Player.update(deltaTime)
PlayerUpdate(w, pid, dt, down, pressed) ==
    IF ~w.objs[pid].active THEN w
    ELSE LET w1 == PlayerHandleInput(w, pid, down, pressed)
             p1 == CooledDown(w1.objs[pid], dt)
             p2 == IF p1.invulnerable
                   THEN [p1 EXCEPT !.invulnerabilityTime = @ - dt,
                                   !.invulnerable = (p1.invulnerabilityTime - dt > 0)]
                   ELSE p1
         IN [w1 EXCEPT !.objs[pid] = GameObjectUpdate(p2, dt)]

\* Enemy.shoot
EnemyShoot(w, eid) ==
    LET e == w.objs[eid]
    IN IF ~e.canShoot THEN w
       ELSE AddGameObject([w EXCEPT !.objs[eid].canShoot = FALSE,
                                    !.objs[eid].shootCooldown = e.shootCooldownTime],
                          NewBullet(e.x, e.y + e.height \div 2 + Px(5),
                                    0, Vel(EnemyBulletSpeed), FALSE))

\* Enemy.update(deltaTime); shoots is Math.random() < shootProbability
EnemyUpdate(w, eid, dt, shoots) ==
    IF ~w.objs[eid].active THEN w
    ELSE LET e == w.objs[eid]
             e1 == CooledDown([e EXCEPT !.vx = e.speed * e.direction], dt)
             w1 == [w EXCEPT !.objs[eid] = e1]
             w2 == IF e1.canShoot /\ shoots THEN EnemyShoot(w1, eid) ELSE w1
         IN [w2 EXCEPT !.objs[eid] = GameObjectUpdate(@, dt)]

\* Bullet.update(deltaTime): a bullet faster than 600 px/s moves in
\* ceil(speed / 400) sub-steps, stopping when it leaves the canvas
RECURSIVE SubSteps(_, _, _)
SubSteps(b, stepDelta, n) ==
    IF n = 0 \/ ~b.active THEN b
    ELSE SubSteps(GameObjectUpdate(b, stepDelta), stepDelta, n - 1)

BulletUpdate(b, dt) ==
    LET speedSq == b.vx * b.vx + b.vy * b.vy
        steps == CHOOSE n \in 1 .. 4 :
                    /\ speedSq <= (Vel(400) * n) * (Vel(400) * n)
                    /\ (n = 1 \/ speedSq > (Vel(400) * (n - 1)) * (Vel(400) * (n - 1)))
    IN IF ~b.active THEN b
       ELSE IF speedSq > Vel(600) * Vel(600) THEN SubSteps(b, dt \div steps, steps)
       ELSE GameObjectUpdate(b, dt)

PickupGravity == 100
PickupGroundPx == 80
MagnetRangePx == 60
MagnetForce == 200

\* WeaponPickup.updatePhysics: gravity, and the bounce on the ground line
\* (bounce 0.3, friction 0.8, a bounce slower than 20 px/s stops)
PickupPhysics(k, dt) ==
    LET vy1 == k.vy + (Vel(PickupGravity) * dt) \div (1000 * TimePerMs)
        groundY == Height - Px(PickupGroundPx)
        vy2 == 0 - (vy1 * 3) \div 10
        vx2 == (k.vx * 8) \div 10
    IN IF k.y >= groundY /\ vy1 > 0
       THEN IF Abs(vy2) < Vel(20)
            THEN [k EXCEPT !.y = groundY, !.vy = 0, !.vx = (vx2 * 9) \div 10]
            ELSE [k EXCEPT !.y = groundY, !.vy = vy2, !.vx = vx2]
       ELSE [k EXCEPT !.vy = vy1]

\* gameObjects.find(obj => obj instanceof Player): 0 when there is none
RECURSIVE FindPlayer(_, _)
FindPlayer(reg, os) ==
    IF reg = <<>> THEN 0
    ELSE IF os[Head(reg)].cls = "Player" THEN Head(reg)
    ELSE FindPlayer(Tail(reg), os)

\* WeaponPickup.updateMagnetism: pulled towards a player within magnetRange
PickupMagnetism(k, reg, os, dt) ==
    LET pid == FindPlayer(reg, os)
        range == Px(MagnetRangePx)
    IN IF pid = 0 \/ DistSq(k, os[pid]) > range * range THEN k
       ELSE LET distance == Isqrt(DistSq(k, os[pid]))
                force == (Vel(MagnetForce) * (range - distance)) \div range
                nd == Max(distance, Px(1))
                ax == ((os[pid].x - k.x) * force) \div nd
                ay == ((os[pid].y - k.y) * force) \div nd
            IN [k EXCEPT !.vx = @ + (ax * dt) \div (1000 * TimePerMs),
                         !.vy = @ + (ay * dt) \div (1000 * TimePerMs)]

\* WeaponPickup.update(deltaTime)
WeaponPickupUpdate(w, kid, dt) ==
    IF ~w.objs[kid].active THEN w
    ELSE LET k1 == PickupMagnetism(PickupPhysics(w.objs[kid], dt), w.reg, w.objs, dt)
             k2 == [k1 EXCEPT !.age = @ + dt]
             k3 == IF k2.age >= Ms(PickupLifetimeMs) THEN Destroyed(k2) ELSE k2
         IN [w EXCEPT !.objs[kid] = GameObjectUpdate(k3, dt)]

\* obj.update(deltaTime) for the object with this id
ObjectUpdate(w, id, dt, down, pressed, shoots) ==
    CASE w.objs[id].cls = "Player" -> PlayerUpdate(w, id, dt, down, pressed)
      [] w.objs[id].cls = "Enemy" -> EnemyUpdate(w, id, dt, shoots)
      [] w.objs[id].cls = "Bullet" -> [w EXCEPT !.objs[id] = BulletUpdate(@, dt)]
      [] w.objs[id].cls = "WeaponPickup" -> WeaponPickupUpdate(w, id, dt)

\* a mutant of Splice: the first entry goes, whatever the index
SpliceFirst(reg, i) == Tail(reg)

\* gameObjects.splice(i, 1)
Splice(reg, i) == [j \in 1 .. (Len(reg) - 1) |-> IF j < i THEN reg[j] ELSE reg[j + 1]]

\* ------------------------------------------ formation, level and scene
\* LevelManager.levelConfigs[level].enemyFormation
FormationRows == <<3, 4>>
FormationCols == <<8, 10>>
FormationSpacingX == <<40, 35>>
FormationSpacingY == <<35, 30>>
FormationStartY == <<80, 60>>
FormationBaseSpeed == <<50, 60>>
FormationTypes == <<<<"basic", "basic", "fast">>, <<"basic", "fast", "shooter", "strong">>>>
MaxLevel == 2

\* EnemyFormation.applyLevelScaling, after enemy.setSpeed(moveSpeed)
ScaledEnemy(e, level, moveSpeed) ==
    LET maxHealth == IF e.health > 1 THEN (e.health * (10 + (level - 1) * 2)) \div 10
                     ELSE e.health
    IN [e EXCEPT !.speed = moveSpeed, !.health = maxHealth,
                 !.points = (@ * (10 + (level - 1) * 2)) \div 10,
                 !.shootCooldownTime = (@ * (10 - (level - 1))) \div 10]

\* the enemy of createFormation's loops at (row, col), both from 0
FormationEnemy(level, row, col) ==
    LET formationWidth == (FormationCols[level] - 1) * Px(FormationSpacingX[level])
        startX == (Width - formationWidth) \div 2
        types == FormationTypes[level]
    IN ScaledEnemy(NewEnemy(startX + col * Px(FormationSpacingX[level]),
                            Px(FormationStartY[level]) + row * Px(FormationSpacingY[level]),
                            types[(row % Len(types)) + 1]),
                   level, Vel(FormationBaseSpeed[level]))

\* EnemyFormation.clearFormation
RECURSIVE DestroyActive(_, _)
DestroyActive(w, ids) ==
    IF ids = <<>> THEN w
    ELSE DestroyActive(IF w.objs[Head(ids)].active THEN DestroyIn(w, Head(ids)) ELSE w,
                       Tail(ids))

\* the loops of createFormation from cell n (row-major) on
RECURSIVE PlaceEnemies(_, _, _)
PlaceEnemies(w, level, n) ==
    IF n >= FormationRows[level] * FormationCols[level] THEN w
    ELSE LET e == FormationEnemy(level, n \div FormationCols[level], n % FormationCols[level])
             id == FreshId(w.objs)
             w1 == AddGameObject(w, e)
         IN PlaceEnemies([w1 EXCEPT !.ef.enemies = Append(@, id)], level, n + 1)

\* an object nothing refers to any more is gone
Collected(w) ==
    LET live == SeqToSet(w.reg) \cup SeqToSet(w.ef.enemies)
    IN [w EXCEPT !.objs = [id \in live |-> w.objs[id]]]

\* EnemyFormation.createFormation
CreateFormation(w, level) ==
    LET w1 == DestroyActive(w, w.ef.enemies)
        w2 == Collected([w1 EXCEPT !.ef.enemies = <<>>, !.ef.currentLevel = level,
                                   !.ef.moveSpeed = Vel(FormationBaseSpeed[level])])
    IN PlaceEnemies(w2, level, 0)

\* WeaponManager.reset, with its updateUI
WeaponManagerReset(w, pid) ==
    [w EXCEPT !.objs[pid] = [WithWeapon(@, 0) EXCEPT !.weaponLevel = 1],
              !.gs.weaponLevel = 1]

\* Player.reset
PlayerReset(w, pid) ==
    LET base == [w.objs[pid] EXCEPT
                    !.health = PlayerMaxHealth, !.invulnerable = FALSE,
                    !.invulnerabilityTime = 0, !.active = TRUE, !.shouldDestroy = FALSE,
                    !.canShoot = TRUE, !.shootCooldown = 0,
                    !.x = Width \div 2, !.y = Height - Px(50), !.vx = 0, !.vy = 0]
    IN IF base.hasWeapon
       THEN WeaponManagerReset([w EXCEPT !.objs[pid] = base], pid)
       ELSE [w EXCEPT !.objs[pid] = base]

\* GameEngine.onLevelStart
OnLevelStart(w, level) ==
    LET w1 == [w EXCEPT !.reg = SelectSeq(@, LAMBDA id : w.objs[id].cls # "Enemy")]
        player == FindPlayer(w1.reg, w1.objs)
        w2 == IF player # 0 /\ level = 1 THEN PlayerReset(w1, player) ELSE w1
        w3 == CreateFormation(w2, level)
    IN [w3 EXCEPT !.gs.level = level]

\* LevelManager.startLevel; fired lists the events of the level manager
\* since this call, each with the level or the points it carries
StartLevel(w, level) ==
    OnLevelStart([w EXCEPT !.lm = [currentLevel |-> level, levelState |-> "playing",
                                   transitionTimer |-> 0, fired |-> <<>>]],
                 level)

\* GameEngine.restartGame
RestartGame(w) ==
    LET w1 == AddGameObject(Collected([w EXCEPT !.reg = <<>>]),
                            ArmedPlayer(Width \div 2, Height - Px(50)))
    IN StartLevel([w1 EXCEPT !.gs = ResetGameState], 1)

\* a mutant of ChangeScene: the scene changes whatever the scene manager
\* is doing
ChangeSceneAlways(w, newScene) ==
    [w EXCEPT !.sm = [currentScene |-> newScene, previousScene |-> w.sm.currentScene,
                      isTransitioning |-> TRUE, transitionTimer |-> 0,
                      log |-> Append(w.sm.log, <<"change", newScene>>)]]

\* SceneManager.changeScene; log lists the scene changes made and the runs
\* of initializeScene, in their order
ChangeScene(w, newScene) ==
    IF w.sm.isTransitioning \/ w.sm.currentScene = newScene THEN w
    ELSE [w EXCEPT !.sm = [currentScene |-> newScene, previousScene |-> w.sm.currentScene,
                           isTransitioning |-> TRUE, transitionTimer |-> 0,
                           log |-> Append(w.sm.log, <<"change", newScene>>)]]

\* a setTimeout callback of the engine, due at a time
TimerAt(due, kind) == [due |-> due, kind |-> kind]

\* LevelManager.onLevelClear, with GameEngine.onLevelClear
LevelTransitionMs == 2000
VictoryDelayMs == 2000
GameOverDelayMs == 1000

OnLevelClear(w, t) ==
    IF w.lm.levelState # "playing" THEN w
    ELSE [w EXCEPT !.lm.levelState = "cleared", !.lm.transitionTimer = 0,
                   !.lm.fired = Append(@, <<"levelClear", w.lm.currentLevel>>),
                   !.timers = IF w.lm.currentLevel >= MaxLevel
                              THEN @ \cup {TimerAt(t + Ms(VictoryDelayMs), "showVictory")}
                              ELSE @]

\* LevelManager.onGameOver, with GameEngine.onGameOver
OnGameOver(w, t) ==
    IF w.lm.levelState # "playing" THEN w
    ELSE [w EXCEPT !.lm.levelState = "failed", !.lm.transitionTimer = 0,
                   !.lm.fired = Append(@, <<"gameOver", w.lm.currentLevel>>),
                   !.timers = @ \cup {TimerAt(t + Ms(GameOverDelayMs), "showGameOver")}]

\* LevelManager.checkLevelClearCondition
CheckLevelClearCondition(w, t) ==
    IF ActiveEnemies(w.reg, w.objs) = <<>> THEN OnLevelClear(w, t) ELSE w

\* LevelManager.checkGameOverCondition
CheckGameOverCondition(w, t) ==
    LET player == ActivePlayer(w.reg, w.objs)
        enemies == ActiveEnemies(w.reg, w.objs)
    IN IF player = 0 \/ w.objs[player].health <= 0 THEN OnGameOver(w, t)
       ELSE IF \E i \in 1 .. Len(enemies) :
                  w.objs[enemies[i]].y + w.objs[enemies[i]].height \div 2
                      >= Height - Px(100)
       THEN OnGameOver(w, t)
       ELSE w

CompletionBonus == 5000

\* LevelManager.onGameComplete, with GameEngine.onGameComplete: the bonus,
\* the event, showVictory()
OnGameComplete(w) ==
    ChangeScene([w EXCEPT !.lm.fired = Append(@, <<"gameComplete", CompletionBonus>>)],
                "victory")

\* LevelManager.proceedToNextLevel
ProceedToNextLevel(w) ==
    IF w.lm.currentLevel >= MaxLevel THEN OnGameComplete(w)
    ELSE StartLevel(w, w.lm.currentLevel + 1)

\* LevelManager.update(deltaTime), called at time t
LevelManagerUpdate(w, dt, t) ==
    IF w.lm.levelState \in {"cleared", "failed"}
    THEN LET w1 == [w EXCEPT !.lm.transitionTimer = @ + dt]
         IN IF w1.lm.transitionTimer >= Ms(LevelTransitionMs)
            THEN IF w.lm.levelState = "cleared" THEN ProceedToNextLevel(w1)
                 ELSE StartLevel(w1, w1.lm.currentLevel)
            ELSE w1
    ELSE CheckGameOverCondition(CheckLevelClearCondition(w, t), t)

SceneTransitionMs == 500

\* SceneManager.initializeScene
InitializeScene(w0, scene) ==
    LET w == [w0 EXCEPT !.sm.log = Append(@, <<"init", scene>>)]
    IN CASE scene = "start" -> [w EXCEPT !.gs = ResetGameState]
         [] scene = "game" -> RestartGame([w EXCEPT !.gs.gameStatus = "playing"])
         [] scene = "pause" -> [w EXCEPT !.gs.gameStatus = "paused"]
         [] scene = "gameOver" -> [w EXCEPT !.gs.gameStatus = "gameOver"]
         [] scene = "victory" -> [w EXCEPT !.gs.gameStatus = "victory"]
         [] OTHER -> w

\* SceneManager.updateTransition, with completeTransition
SceneUpdateTransition(w, dt) ==
    IF w.sm.transitionTimer + dt >= Ms(SceneTransitionMs)
    THEN InitializeScene([w EXCEPT !.sm.isTransitioning = FALSE,
                                   !.sm.transitionTimer = 0],
                         w.sm.currentScene)
    ELSE [w EXCEPT !.sm.transitionTimer = @ + dt]

\* InputManager.isPausePressed
IsPausePressed(pressed) == "p" \in pressed \/ "P" \in pressed

\* SceneManager.handleSceneInput
HandleSceneInput(w, pressed) ==
    LET scene == w.sm.currentScene
        enter == "Enter" \in pressed
        escape == "Escape" \in pressed
    IN CASE scene = "start" -> IF enter THEN ChangeScene(w, "game") ELSE w
         [] scene = "game" -> IF IsPausePressed(pressed) THEN ChangeScene(w, "pause") ELSE w
         [] scene = "pause" ->
                LET w1 == IF IsPausePressed(pressed) \/ enter
                          THEN ChangeScene(w, "game") ELSE w
                IN IF escape THEN ChangeScene(w1, "start") ELSE w1
         [] scene = "gameOver" ->
                LET w1 == IF enter THEN ChangeScene(w, "game") ELSE w
                IN IF escape THEN ChangeScene(w1, "start") ELSE w1
         [] scene = "victory" -> IF enter \/ escape THEN ChangeScene(w, "start") ELSE w
         [] OTHER -> w

\* SceneManager.update(deltaTime)
SceneManagerUpdate(w, dt, pressed) ==
    HandleSceneInput(IF w.sm.isTransitioning THEN SceneUpdateTransition(w, dt) ELSE w,
                     pressed)

\* SceneManager.isInGame
IsInGame(sm) == sm.currentScene = "game"

\* ------------------------------------------------------- the frame loop
\* a mutant of Render: the flagged objects are taken out while drawing
RenderReaping(w, paused) ==
    [w |-> [w EXCEPT !.reg = SelectSeq(@, LAMBDA id : ~w.objs[id].shouldDestroy)],
     paused |-> paused,
     drawn |-> IF IsInGame(w.sm)
               THEN SelectSeq(w.reg, LAMBDA id : IsGameObject(w.objs[id]))
               ELSE <<>>,
     overlay |-> paused]

\* GameEngine.render: in the game scene every object of the registry that
\* has a render method is drawn, in registry order, and the pause overlay
\* when paused; the world (w) and the pause flag are as they were
Render(w, paused) ==
    [w |-> w,
     paused |-> paused,
     drawn |-> IF IsInGame(w.sm)
               THEN SelectSeq(w.reg, LAMBDA id : IsGameObject(w.objs[id]))
               ELSE <<>>,
     overlay |-> paused]

\* a mutant of StepDue: a step only when more than the interval has passed
StepDueStrict(dt) == dt > FrameInterval

\* gameLoop: deltaTime >= this.frameInterval
StepDue(dt) == dt >= FrameInterval

\* a mutant of HandlePauseInput: the request is honoured only while running
HandlePauseInputRunningOnly(paused, pressed) ==
    IF ~paused /\ IsPausePressed(pressed) THEN TRUE ELSE paused

\* GameEngine.handlePauseInput, with pause(): the pause flag after it
HandlePauseInput(paused, pressed) ==
    IF IsPausePressed(pressed) THEN ~paused ELSE paused

\* a mutant of RunsUpdate: update() whatever the pause flag
RunsUpdateAlways(paused) == TRUE

\* gameLoop: if (!this.isPaused) this.update(deltaTime)
RunsUpdate(paused) == ~paused

\* a mutant of NextLastTime: one frame interval is taken off the backlog
NextLastTimeOneInterval(currentTime, dt) == currentTime - dt + FrameInterval

\* a mutant of NextLastTime: the remainder is dropped
NextLastTimeNoCarry(currentTime, dt) == currentTime

\* gameLoop: this.lastTime = currentTime - (deltaTime % this.frameInterval)
NextLastTime(currentTime, dt) == currentTime - (dt % FrameInterval)

\* ------------------------------------------------------------ the state
VARIABLES
    now,             \* performance.now()
    lastTime,        \* GameEngine.lastTime
    isRunning,       \* GameEngine.isRunning
    isPaused,        \* GameEngine.isPaused
    pc,              \* where the current frame stands ("idle" between ticks)
    loopI,           \* the index i of the loop of GameEngine.update
    deltaTime,       \* the deltaTime of the current tick
    scheduled,       \* the requestAnimationFrame requests for gameLoop that
                     \* have not completed (the one that runs included)
    keys,            \* InputManager.keys (the keys held down)
    keysPressed,     \* InputManager.keysPressed (the press edges)
    gameObjects,     \* GameEngine.gameObjects, a sequence of object ids
    objs,            \* the objects, by id
    grid,            \* SpatialGrid.grid
    collisionPairs,  \* CollisionSystem.collisionPairs (the keys id1-id2)
    hookLog,         \* history: the onCollision calls of the current pass
    callLog,         \* history: the handleCollision calls of the current pass
    gameState,       \* GameStateManager.gameState
    sceneManager,    \* SceneManager: currentScene, isTransitioning, ...
    levelManager,    \* LevelManager: currentLevel, levelState, transitionTimer
    enemyFormation,  \* EnemyFormation: enemies, moveSpeed, currentLevel
    timers,          \* the setTimeout callbacks not yet run
    ticks,           \* history: how many ticks of the running loop have read
                     \* an advanced clock
    frameTrace,      \* history: the phases the current tick has run
    presses,         \* history: pause key presses registered
    toggles,         \* history: how many times pause() has run
    passRegistry,    \* history: the registry when the current pass began
    collisionFlagged, \* history: the objects the last pass flagged
    reaped,          \* history: the objects this tick's update loop removed
    nearby,          \* the result of the last getNearbyObjects of the probe
    query,           \* the arguments of that call
    overlap,         \* the last probe of checkCollision and collidesWith:
                     \* its arguments and the two results
    calls            \* history: the calls made on a manager on its own

vars == <<now, lastTime, isRunning, isPaused, pc, loopI, deltaTime, scheduled,
          keys, keysPressed, gameObjects, objs, grid, collisionPairs,
          hookLog, callLog, gameState, sceneManager, levelManager,
          enemyFormation, timers, ticks, frameTrace, presses, toggles,
          passRegistry, collisionFlagged, reaped, nearby, query, overlap, calls>>

engineVars == <<now, lastTime, isRunning, isPaused, pc, loopI, deltaTime, scheduled>>
inputVars == <<keys, keysPressed>>
logVars == <<hookLog, callLog>>
managerVars == <<sceneManager, levelManager, enemyFormation, timers>>
historyVars == <<ticks, frameTrace, presses, toggles, passRegistry,
                 collisionFlagged, reaped>>
probeVars == <<nearby, query, overlap, calls>>

NoQuery == [id |-> 0, targets |-> <<>>]
NoOverlap == [a |-> 0, b |-> 0, checkCollision |-> FALSE, collidesWith |-> FALSE]


\* the engine and its managers as their constructors leave them
EngineConstructed ==
    /\ now = 0 /\ lastTime = 0 /\ isRunning = FALSE /\ isPaused = FALSE
    /\ pc = "idle" /\ loopI = 0 /\ deltaTime = 0 /\ scheduled = {}
    /\ keys = {} /\ keysPressed = {}
    /\ sceneManager = [currentScene |-> "start", previousScene |-> "none",
                       isTransitioning |-> FALSE, transitionTimer |-> 0,
                       log |-> <<>>]
    /\ levelManager = [currentLevel |-> 1, levelState |-> "playing",
                       transitionTimer |-> 0, fired |-> <<>>]
    /\ enemyFormation = [direction |-> 1, isMovingDown |-> FALSE,
                         moveDownTimer |-> 0,
                         enemies |-> <<>>, moveSpeed |-> Vel(50), currentLevel |-> 1]
    /\ timers = {}
    /\ ticks = 0 /\ frameTrace = <<>> /\ presses = 0 /\ toggles = 0
    /\ passRegistry = <<>> /\ collisionFlagged = {} /\ reaped = {}

\* ------------------------------------------- the spatial grid on its own
\* Two objects at positions on, across and beyond the cell boundaries and
\* the grid's edges; the grid is rebuilt and then queried.
ProbeXs == {0 - 12, 0 - 4, 60, 64, 128, 796, 840}
ProbeYs == {0 - 12, 64, 120, 650}
ProbeSizes == {<<EnemySizePx, EnemySizePx>>, <<BulletWidthPx, BulletHeightPx>>,
               <<GridCellPx, GridCellPx>>}

ProbeObject(x, y, size, active) ==
    [BaseObject("Enemy", Px(x), Px(y)) EXCEPT
        !.width = Px(size[1]), !.height = Px(size[2]), !.active = active]

InitGrid ==
    /\ EngineConstructed
    /\ gameObjects = <<1, 2>>
    /\ \E x1 \in ProbeXs, y1 \in ProbeYs, s1 \in ProbeSizes,
          x2 \in ProbeXs, y2 \in ProbeYs, a2 \in BOOLEAN :
          objs = <<ProbeObject(x1, y1, s1, TRUE),
                   ProbeObject(x2, y2, <<EnemySizePx, EnemySizePx>>, a2)>>
    /\ grid = EmptyGrid
    /\ collisionPairs = {}
    /\ hookLog = <<>> /\ callLog = <<>>
    /\ gameState = ResetGameState
    /\ nearby = <<>> /\ query = NoQuery /\ overlap = NoOverlap /\ calls = <<>>

\* CollisionSystem.updateSpatialGrid
GridRebuild ==
    /\ grid' = UpdateSpatialGrid(gameObjects, objs)
    /\ nearby' = <<>> /\ query' = NoQuery
    /\ UNCHANGED <<engineVars, inputVars, gameObjects, objs, collisionPairs,
                   logVars, gameState, managerVars, historyVars, overlap, calls>>

\* SpatialGrid.getNearbyObjects(obj, targetObjects) on the rebuilt grid
GridQuery ==
    /\ grid = UpdateSpatialGrid(gameObjects, objs)
    /\ \E id \in DOMAIN objs, targets \in {<<1>>, <<2>>, <<1, 2>>, <<2, 1>>} :
          /\ nearby' = GetNearbyObjects(grid, id, objs[id], targets)
          /\ query' = [id |-> id, targets |-> targets]
    /\ UNCHANGED <<engineVars, inputVars, gameObjects, objs, grid,
                   collisionPairs, logVars, gameState, managerVars, historyVars,
                   overlap, calls>>

NextGrid == GridRebuild \/ GridQuery

SpecGrid == InitGrid /\ [][NextGrid]_vars

\* ------------------------------------------ the dispatcher on its own
\* handleCollision is a public method of the collision system: here it is
\* called with any two objects of a small game in progress, any number of
\* times (up to MaxCalls) within one pass, that is after one
\* collisionPairs.clear() and before the next.
MaxCalls == 2

World ==
    [objs |-> objs, reg |-> gameObjects, pairs |-> collisionPairs,
     hookLog |-> hookLog, callLog |-> callLog, gs |-> gameState,
     sm |-> sceneManager, lm |-> levelManager, ef |-> enemyFormation,
     timers |-> timers]

SetWorld(w) ==
    /\ objs' = w.objs /\ gameObjects' = w.reg /\ collisionPairs' = w.pairs
    /\ hookLog' = w.hookLog /\ callLog' = w.callLog /\ gameState' = w.gs
    /\ sceneManager' = w.sm /\ levelManager' = w.lm /\ enemyFormation' = w.ef
    /\ timers' = w.timers

\* two of the values of (Math.random() - 0.5) * 50, one to each side
PickupVxs == {0 - Vel(20), Vel(20)}

Randoms(os) ==
    [drops : SUBSET {id \in DOMAIN os : os[id].cls = "Enemy"}, pvx : PickupVxs]


\* a player, a basic and a strong enemy, a player bullet (of the basic or of
\* the laser weapon), an enemy bullet and a weapon pickup, all close together
DispatchObjects(laser) ==
    LET p == ArmedPlayer(Px(400), Px(550))
    IN <<p,
         NewEnemy(Px(400), Px(540), "basic"),
         NewEnemy(Px(410), Px(540), "strong"),
         WeaponBullet(WithWeapon(p, IF laser THEN 3 ELSE 0),
                      Px(404), Px(536), 0, 0 - Vel(400)),
         NewBullet(Px(398), Px(545), 0, Vel(EnemyBulletSpeed), FALSE),
         NewWeaponPickup(Px(395), Px(552))>>

InitDispatch ==
    /\ EngineConstructed
    /\ \E laser \in BOOLEAN : objs = DispatchObjects(laser)
    /\ gameObjects = <<1, 2, 3, 4, 5, 6>>
    /\ grid = EmptyGrid
    /\ collisionPairs = {}
    /\ hookLog = <<>> /\ callLog = <<>>
    /\ gameState = [ResetGameState EXCEPT !.gameStatus = "playing"]
    /\ nearby = <<>> /\ query = NoQuery /\ overlap = NoOverlap /\ calls = <<>>

\* handleCollision(obj1, obj2)
Dispatch ==
    /\ Len(callLog) < MaxCalls
    /\ \E id1 \in DOMAIN objs, id2 \in DOMAIN objs, r \in Randoms(objs) :
          /\ id1 # id2
          /\ SetWorld(HandleCollision(World, id1, id2, r))
    /\ UNCHANGED <<engineVars, inputVars, grid, probeVars, historyVars>>

NextDispatch == Dispatch

SpecDispatch == InitDispatch /\ [][NextDispatch]_vars

\* how often self.onCollision(other) was invoked since the last clear
HookCount(self, other) ==
    Cardinality({i \in 1 .. Len(hookLog) :
                    hookLog[i].self = self /\ hookLog[i].other = other})

\* C1: within one pass, however a pair that is not a Player-WeaponPickup
\* pair is handed to handleCollision, (A,B) or (B,A), each side's
\* onCollision hook is invoked at most once for the pair.
C1_UnorderedPairOnce ==
    \A a \in DOMAIN objs, b \in DOMAIN objs :
        (a # b /\ ~IsPickupPair(objs[a], objs[b])) => HookCount(a, b) <= 1

\* the calls of the pass that were not returned from as duplicates
FreshCalls == SelectSeq(callLog, LAMBDA c : ~c.duplicate)

\* C2: for every call on a pair not yet resolved, obj1.onCollision(obj2) is
\* invoked first and obj2.onCollision(obj1) second, whatever the first hook
\* did to either object.
C2_HookOrder ==
    /\ Len(hookLog) = 2 * Len(FreshCalls)
    /\ \A k \in 1 .. Len(FreshCalls) :
          /\ hookLog[2 * k - 1].self = FreshCalls[k].obj1
          /\ hookLog[2 * k - 1].other = FreshCalls[k].obj2
          /\ hookLog[2 * k].self = FreshCalls[k].obj2
          /\ hookLog[2 * k].other = FreshCalls[k].obj1

\* C2 witness: a second hook was invoked after the first hook had
\* deactivated and flagged an object that was active when the call began
C2_Witness ==
    \E k \in 1 .. Len(FreshCalls) :
        /\ 2 * k <= Len(hookLog)
        /\ hookLog[2 * k - 1].selfActive /\ hookLog[2 * k - 1].otherActive
        /\ ~hookLog[2 * k].selfActive /\ hookLog[2 * k].selfFlagged

\* the part of the plane the grid was built for: [0, width) x [0, height)
InsideGrid(o) ==
    LET b == GetBounds(o)
    IN b.right >= 0 /\ b.left < Width /\ b.bottom >= 0 /\ b.top < Height

\* cell c covers [col * CellSize, (col + 1) * CellSize) in x, likewise in y
CellOverlaps(c, o) ==
    LET b == GetBounds(o)
        col == c % Cols
        row == c \div Cols
    IN /\ b.right >= col * CellSize /\ b.left < (col + 1) * CellSize
       /\ b.bottom >= row * CellSize /\ b.top < (row + 1) * CellSize

\* C3: after a rebuild, a query from an active object inside the grid
\* returns every other active target inside the grid whose box intersects
\* its box, and every active object is in every cell its bounds overlap.
C3_GridComplete ==
    /\ query.id # 0 =>
          \A b \in SeqToSet(query.targets) \ {query.id} :
              (/\ objs[query.id].active /\ objs[b].active
               /\ InsideGrid(objs[query.id]) /\ InsideGrid(objs[b])
               /\ CheckAABBCollision(objs[query.id], objs[b]))
              => Contains(nearby, b)
    /\ query.id # 0 =>
          \A id \in DOMAIN objs, c \in CellIndexes :
              (objs[id].active /\ CellOverlaps(c, objs[id]))
              => Contains(grid[c], id)

\* C3 witness: a query found an intersecting target although the two boxes
\* have different top-left cells and the querying box straddles a boundary
C3_Witness ==
    /\ query.id # 0
    /\ \E b \in SeqToSet(query.targets) \ {query.id} :
          /\ Contains(nearby, b)
          /\ CheckAABBCollision(objs[query.id], objs[b])
          /\ Len(InsertCells(GetBounds(objs[query.id]))) > 1
          /\ Head(InsertCells(GetBounds(objs[query.id])))
                # Head(InsertCells(GetBounds(objs[b])))

\* ------------------------------------------------ the running game
MaxTicks == 2
MaxPresses == 2
MaxEnemyBullets == 1

\* the delays between two runs of gameLoop: shorter than a frame interval,
\* exactly one, one and a remainder, and a long stall
TickAdvances == {20, FrameInterval, FrameInterval + 20, Ms(1000)}

PauseKeys == {"p", "P"}
PressableKeys == {"p"}

\* a running level: the player under two enemies of the first formation
\* row, a player bullet about to hit the first enemy, another one in
\* flight, an enemy bullet about to hit the player, and a falling pickup
GameObjectsInPlay(laser, health, second) ==
    LET p == WithWeapon([NewPlayer(Px(400), Px(550)) EXCEPT !.health = health],
                        IF laser THEN 3 ELSE 0)
        a == ScaledEnemy(NewEnemy(Px(400), Px(80), "basic"), 1, Vel(50))
        b == ScaledEnemy(NewEnemy(Px(440), Px(80), "basic"), 1, Vel(50))
        rest == <<WeaponBullet(p, Px(400), Px(92), 0, 0 - Vel(WeaponBulletSpeeds[p.weaponIndex + 1])),
                  NewBullet(Px(400), Px(535), 0, Vel(EnemyBulletSpeed), FALSE),
                  NewWeaponPickup(Px(430), Px(500)),
                  WeaponBullet(p, Px(300), Px(300), 0, 0 - Vel(WeaponBulletSpeeds[p.weaponIndex + 1]))>>
    IN IF second THEN <<p, a, b>> \o rest ELSE <<p, a>> \o rest

\* the weapon is the laser or the basic one, the player's health, and
\* whether the second enemy is still there
Scenarios == {<<FALSE, PlayerMaxHealth, TRUE>>, <<TRUE, PlayerMaxHealth, TRUE>>,
              <<FALSE, 1, TRUE>>, <<FALSE, PlayerMaxHealth, FALSE>>}

\* the engine runs a game with the objects os, the first of them the
\* player, the enemies of the formation next
GameInPlay(os, enemies) ==
    /\ now = 0 /\ lastTime = 0 /\ isRunning = TRUE /\ isPaused = FALSE
    /\ pc = "idle" /\ loopI = 0 /\ deltaTime = 0 /\ scheduled = {1}
    /\ keys = {} /\ keysPressed = {}
    /\ objs = os
    /\ gameObjects = [i \in 1 .. Len(os) |-> i]
    /\ enemyFormation = [direction |-> 1, isMovingDown |-> FALSE,
                         moveDownTimer |-> 0,
                         enemies |-> enemies,
                         moveSpeed |-> Vel(FormationBaseSpeed[1]),
                         currentLevel |-> 1]
    /\ gameState = [ResetGameState EXCEPT !.lives = os[1].health]
    /\ sceneManager = [currentScene |-> "game", previousScene |-> "start",
                       isTransitioning |-> FALSE, transitionTimer |-> 0,
                       log |-> <<<<"change", "game">>, <<"init", "game">>>>]
    /\ levelManager = [currentLevel |-> 1, levelState |-> "playing",
                       transitionTimer |-> 0, fired |-> <<>>]
    /\ timers = {}
    /\ grid = EmptyGrid /\ collisionPairs = {}
    /\ hookLog = <<>> /\ callLog = <<>>
    /\ ticks = 0 /\ frameTrace = <<>> /\ presses = 0 /\ toggles = 0
    /\ passRegistry = <<>> /\ collisionFlagged = {} /\ reaped = {}
    /\ nearby = <<>> /\ query = NoQuery /\ overlap = NoOverlap /\ calls = <<>>

Init ==
    \E play \in Scenarios :
        GameInPlay(GameObjectsInPlay(play[1], play[2], play[3]),
                   IF play[3] THEN <<2, 3>> ELSE <<2>>)

worldVars == <<gameObjects, objs, collisionPairs, hookLog, callLog, gameState,
               sceneManager, levelManager, enemyFormation, timers>>

\* a mutant of NextScheduled: gameLoop without requestAnimationFrame
NextScheduledNone(pending) == pending \ {CHOOSE r \in pending : TRUE}

\* gameLoop runs as the callback of one of the pending requests and ends
\* with requestAnimationFrame(() => this.gameLoop()), a request with a
\* handle no pending request has
NextScheduled(pending) ==
    (pending \ {CHOOSE r \in pending : TRUE})
        \cup {CHOOSE n \in 1 .. (Cardinality(pending) + 1) : n \notin pending}

\* gameLoop when less than a frame interval has passed
TickNoStep ==
    /\ isRunning /\ pc = "idle" /\ ticks < MaxTicks /\ scheduled # {}
    /\ \E adv \in TickAdvances :
          /\ now' = now + adv
          /\ deltaTime' = now' - lastTime
          /\ ~StepDue(deltaTime')
    /\ scheduled' = NextScheduled(scheduled)
    /\ ticks' = ticks + 1 /\ frameTrace' = <<>> /\ reaped' = {}
    /\ UNCHANGED <<lastTime, isRunning, isPaused, pc, loopI, inputVars, worldVars,
                   grid, presses, toggles, passRegistry, collisionFlagged, probeVars>>

\* gameLoop when a step is due and the game is (still or newly) paused
TickPausedStep ==
    /\ isRunning /\ pc = "idle" /\ ticks < MaxTicks /\ scheduled # {}
    /\ \E adv \in TickAdvances :
          /\ now' = now + adv
          /\ deltaTime' = now' - lastTime
          /\ StepDue(deltaTime')
          /\ lastTime' = NextLastTime(now', deltaTime')
    /\ ~RunsUpdate(HandlePauseInput(isPaused, keysPressed))
    /\ LET r == Render(World, HandlePauseInput(isPaused, keysPressed))
       IN isPaused' = r.paused /\ SetWorld(r.w)
    /\ toggles' = IF HandlePauseInput(isPaused, keysPressed) # isPaused
                  THEN toggles + 1 ELSE toggles
    /\ keysPressed' = {}
    /\ scheduled' = NextScheduled(scheduled)
    /\ ticks' = ticks + 1 /\ frameTrace' = <<"render">> /\ reaped' = {}
    /\ UNCHANGED <<isRunning, pc, loopI, keys, grid, presses,
                   passRegistry, collisionFlagged, probeVars>>

\* gameLoop when a step is due and the game runs: update() begins
TickBeginUpdate ==
    /\ isRunning /\ pc = "idle" /\ ticks < MaxTicks /\ scheduled # {}
    /\ \E adv \in TickAdvances :
          /\ now' = now + adv
          /\ deltaTime' = now' - lastTime
          /\ StepDue(deltaTime')
    /\ isPaused' = HandlePauseInput(isPaused, keysPressed)
    /\ RunsUpdate(isPaused')
    /\ toggles' = IF isPaused' # isPaused THEN toggles + 1 ELSE toggles
    /\ loopI' = Len(gameObjects)
    /\ pc' = IF Len(gameObjects) = 0 THEN "scene" ELSE "update"
    /\ ticks' = ticks + 1 /\ frameTrace' = <<"update">> /\ reaped' = {}
    /\ UNCHANGED <<lastTime, isRunning, scheduled, inputVars, worldVars, grid,
                   presses, passRegistry, collisionFlagged, probeVars>>

EnemyBulletCount(reg, os) ==
    Cardinality({id \in SeqToSet(reg) : os[id].cls = "Bullet" /\ ~os[id].isPlayerBullet})

\* one turn of update()'s loop: gameObjects[i].update(deltaTime), then the
\* splice when the object is flagged
UpdateStep ==
    /\ pc = "update"
    /\ objs[gameObjects[loopI]].cls # "System"
    /\ LET id == gameObjects[loopI]
       IN \E shoots \in BOOLEAN :
             /\ shoots => EnemyBulletCount(gameObjects, objs) < MaxEnemyBullets
             /\ LET w1 == ObjectUpdate(World, id, deltaTime, keys, keysPressed, shoots)
                    gone == w1.objs[id].shouldDestroy
                IN /\ SetWorld(IF gone THEN [w1 EXCEPT !.reg = Splice(@, loopI)] ELSE w1)
                   /\ reaped' = IF gone THEN reaped \cup {id} ELSE reaped
    /\ loopI' = loopI - 1
    /\ pc' = IF loopI = 1 THEN "scene" ELSE "update"
    /\ collisionFlagged' = IF loopI = 1 THEN {} ELSE collisionFlagged
    /\ UNCHANGED <<now, lastTime, isRunning, isPaused, deltaTime, scheduled,
                   inputVars, grid,
                   ticks, frameTrace, presses, toggles, passRegistry, probeVars>>

\* update(): this.sceneManager.update(deltaTime), then the isInGame() test
SceneStep ==
    /\ pc = "scene"
    /\ LET w1 == SceneManagerUpdate(World, deltaTime, keysPressed)
       IN /\ SetWorld(w1)
          /\ pc' = IF IsInGame(w1.sm) THEN "collide" ELSE "finish"
    /\ UNCHANGED <<now, lastTime, isRunning, isPaused, loopI, deltaTime, scheduled,
                   inputVars, grid, historyVars, probeVars>>

\* the enemies something that can hurt them touches: only these can die in
\* the pass and draw Math.random() for a weapon drop
Endangered(reg, os) ==
    LET attackers == {o \in SeqToSet(reg) :
                         /\ os[o].active
                         /\ os[o].cls = "Player"
                            \/ (os[o].cls = "Bullet" /\ os[o].isPlayerBullet)}
    IN {e \in SeqToSet(reg) :
           /\ os[e].cls = "Enemy" /\ os[e].active
           /\ \E o \in attackers : CheckCollision(os[o], os[e])}

PassRandoms(reg, os) == [drops : SUBSET Endangered(reg, os), pvx : PickupVxs]

\* the objects a step of the pass has newly flagged for destruction
NewlyFlagged(w) ==
    {id \in DOMAIN w.objs \cap DOMAIN objs :
        w.objs[id].shouldDestroy /\ ~objs[id].shouldDestroy}

passFrame == <<now, lastTime, isRunning, isPaused, loopI, deltaTime, scheduled, inputVars,
               ticks, frameTrace, presses, toggles, reaped, probeVars>>

\* a mutant of CollisionBegin: neither the grid nor the pair set is cleared
CollisionBeginNoClear ==
    /\ pc = "collide"
    /\ collisionPairs' = collisionPairs
    /\ grid' = InsertAll(grid, gameObjects, objs)
    /\ hookLog' = <<>> /\ callLog' = <<>>
    /\ passRegistry' = gameObjects
    /\ collisionFlagged' = {}
    /\ pc' = "bulletEnemy"
    /\ UNCHANGED <<passFrame, gameObjects, objs, gameState, managerVars>>

\* CollisionSystem.performCollisionDetection: the pair set is cleared and
\* the grid rebuilt
CollisionBegin ==
    /\ pc = "collide"
    /\ collisionPairs' = {}
    /\ grid' = UpdateSpatialGrid(gameObjects, objs)
    /\ hookLog' = <<>> /\ callLog' = <<>>
    /\ passRegistry' = gameObjects
    /\ collisionFlagged' = {}
    /\ pc' = "bulletEnemy"
    /\ UNCHANGED <<passFrame, gameObjects, objs, gameState, managerVars>>

\* one category of the pass, run to its end
Category(at, next, w1) ==
    /\ pc = at
    /\ SetWorld(w1)
    /\ collisionFlagged' = collisionFlagged \cup NewlyFlagged(w1)
    /\ pc' = next
    /\ UNCHANGED <<passFrame, grid, passRegistry>>

\* a mutant of PlayerBulletEnemyStep: the pass begins with the player and
\* the enemies
PlayerEnemyStepFirst ==
    \E r \in PassRandoms(gameObjects, objs) :
        Category("bulletEnemy", "bulletPlayer",
                 CheckPlayerEnemyCollisions(World, r))

PlayerBulletEnemyStep ==
    \E r \in PassRandoms(gameObjects, objs) :
        Category("bulletEnemy", "bulletPlayer",
                 CheckPlayerBulletEnemyCollisions(World, grid, r))

EnemyBulletPlayerStep ==
    \E r \in PassRandoms(gameObjects, objs) :
        Category("bulletPlayer", "playerEnemy",
                 CheckEnemyBulletPlayerCollisions(World, r))

PlayerEnemyStep ==
    \E r \in PassRandoms(gameObjects, objs) :
        Category("playerEnemy", "playerPickup",
                 CheckPlayerEnemyCollisions(World, r))

PlayerWeaponPickupStep ==
    \E r \in PassRandoms(gameObjects, objs) :
        Category("playerPickup", "level",
                 CheckPlayerWeaponPickupCollisions(World, r))

\* update(): this.levelManager.update(deltaTime)
LevelStep ==
    /\ pc = "level"
    /\ SetWorld(LevelManagerUpdate(World, deltaTime, now))
    /\ pc' = "finish"
    /\ UNCHANGED <<passFrame, grid, passRegistry, collisionFlagged>>

\* the end of update() and of the step: inputManager.update(), render(),
\* the new time reference; objects nothing refers to any more are collected
FinishStep ==
    /\ pc = "finish"
    /\ keysPressed' = {}
    /\ frameTrace' = Append(frameTrace, "render")
    /\ lastTime' = NextLastTime(now, deltaTime)
    /\ LET r == Render(World, isPaused)
       IN isPaused' = r.paused /\ SetWorld(Collected(r.w))
    /\ collisionFlagged' = collisionFlagged \cap DOMAIN objs'
    /\ scheduled' = NextScheduled(scheduled)
    /\ pc' = "idle"
    /\ UNCHANGED <<now, isRunning, loopI, deltaTime, keys, grid, ticks,
                   presses, toggles, passRegistry, reaped, probeVars>>

idleFrame == <<engineVars, worldVars, grid, ticks, frameTrace, toggles,
               passRegistry, collisionFlagged, reaped, probeVars>>

\* the keydown listener, for a key that is not held
KeyDown ==
    /\ pc = "idle"
    /\ \E key \in PressableKeys :
          /\ key \notin keys
          /\ key \in PauseKeys => presses < MaxPresses
          /\ keysPressed' = keysPressed \cup {key}
          /\ keys' = keys \cup {key}
          /\ presses' = IF key \in PauseKeys THEN presses + 1 ELSE presses
    /\ UNCHANGED idleFrame

\* the keyup listener
KeyUp ==
    /\ pc = "idle"
    /\ \E key \in keys : keys' = keys \ {key}
    /\ UNCHANGED <<idleFrame, keysPressed, presses>>

\* the blur listener: clearAllKeys()
Blur ==
    /\ pc = "idle"
    /\ keys # {} \/ keysPressed # {}
    /\ keys' = {} /\ keysPressed' = {}
    /\ UNCHANGED <<idleFrame, presses>>

\* a setTimeout callback of onLevelClear or onGameOver runs
TimerFire ==
    /\ pc = "idle"
    /\ \E t \in timers :
          /\ t.due <= now
          /\ SetWorld(ChangeScene([World EXCEPT !.timers = @ \ {t}],
                                  IF t.kind = "showVictory" THEN "victory"
                                  ELSE "gameOver"))
    /\ UNCHANGED <<engineVars, inputVars, grid, historyVars, probeVars>>

Next ==
    \/ TickNoStep \/ TickPausedStep \/ TickBeginUpdate
    \/ UpdateStep \/ SceneStep
    \/ CollisionBegin
    \/ PlayerBulletEnemyStep \/ EnemyBulletPlayerStep
    \/ PlayerEnemyStep \/ PlayerWeaponPickupStep
    \/ LevelStep \/ FinishStep
    \/ KeyDown \/ KeyUp \/ Blur \/ TimerFire

Spec == Init /\ [][Next]_vars

\* ------------------------------------------------- pause and timing
\* C4: a tick that leaves the game paused runs no update, moves no object,
\* invokes no onCollision hook and changes nothing of the game but the
\* pause flag, the input edge flags, the time reference and the rendering;
\* no phase of update() is ever in progress while the game is paused.
C4_PauseInvariance ==
    [][/\ isPaused' => pc' = "idle"
       /\ (ticks' = ticks + 1 /\ isPaused')
             => /\ UNCHANGED <<objs, gameObjects, hookLog, callLog, collisionPairs,
                               grid, gameState, managerVars>>
                /\ frameTrace' \in {<<>>, <<"render">>}
       /\ (isPaused /\ isPaused') => UNCHANGED <<objs, gameObjects, hookLog>>]_vars

\* C4 witness: a tick ran a step while the game, with objects in flight,
\* was paused: it rendered and did not update
C4_Witness ==
    /\ isPaused /\ pc = "idle" /\ ticks >= 2 /\ toggles = 1
    /\ frameTrace = <<"render">>
    /\ \E id \in SeqToSet(gameObjects) : objs[id].active /\ objs[id].vy # 0

\* C5 as stated: once no pause press is pending any more, every registered
\* press has toggled the pause flag exactly once.
C5_EveryPressToggles ==
    (pc = "idle" /\ ~IsPausePressed(keysPressed)) => toggles = presses

\* C5: on every tick that runs a step, paused or not, the pause flag
\* toggles exactly once if a pause press is pending and stays otherwise,
\* and it changes at no other moment; a pending press goes away only with
\* the step that has checked it, or when the window loses focus.
C5_PauseChecked ==
    [][/\ (ticks' = ticks + 1 /\ deltaTime' >= FrameInterval)
             => /\ (isPaused' # isPaused) <=> IsPausePressed(keysPressed)
                /\ toggles' = toggles + (IF IsPausePressed(keysPressed) THEN 1 ELSE 0)
       /\ ~(ticks' = ticks + 1 /\ deltaTime' >= FrameInterval)
             => (isPaused' = isPaused /\ toggles' = toggles)
       /\ (IsPausePressed(keysPressed) /\ ~IsPausePressed(keysPressed'))
             => \/ ticks' = ticks + 1 /\ deltaTime' >= FrameInterval
                \/ pc = "finish"
                \/ pc = "idle" /\ ticks' = ticks /\ keys' = {} /\ keysPressed' = {}
       /\ toggles' <= presses']_vars

\* C5 witness: a press while running paused the game and a press while
\* paused resumed it
C5_Witness ==
    /\ presses = 2 /\ toggles = 2 /\ ~isPaused /\ pc = "idle"
    /\ frameTrace = <<"update", "render">>

C7_RemainderCarry ==
    [][/\ (ticks' = ticks + 1 /\ deltaTime' < FrameInterval) => lastTime' = lastTime
       /\ (pc' = "idle" /\ (pc # "idle" \/ ticks' = ticks + 1)
           /\ deltaTime' >= FrameInterval)
             => /\ lastTime' = now' - (deltaTime' % FrameInterval)
                /\ now' - lastTime' < FrameInterval]_vars

\* C7 witness: a step was run with an elapsed time made of a carried
\* remainder and a new delay, and left a remainder again
C7_Witness ==
    /\ pc = "idle" /\ frameTrace # <<>>
    /\ deltaTime = 2 * (FrameInterval + 20) - FrameInterval
    /\ now - lastTime = 40

\* ------------------------------------------ the registry over a frame
\* the positions of the pass, from its first category to the step after it
PassPhases == {"bulletEnemy", "bulletPlayer", "playerEnemy", "playerPickup", "level"}

C9_StableRegistry ==
    pc \in PassPhases => gameObjects = passRegistry

\* C9: a pass removes nothing from the registry and reorders nothing; all
\* it adds are weapon pickups, appended while the pass is running.
C9_OnlyPickupsAppended ==
    pc \in PassPhases
       => /\ Len(passRegistry) <= Len(gameObjects)
          /\ SubSeq(gameObjects, 1, Len(passRegistry)) = passRegistry
          /\ \A k \in (Len(passRegistry) + 1) .. Len(gameObjects) :
                objs[gameObjects[k]].cls = "WeaponPickup"

\* C9 witness: a category of the pass is still to run and the registry
\* already holds the pickup of an enemy the pass has killed
C9_Witness ==
    /\ pc \in PassPhases \ {"level"}
    /\ Len(gameObjects) > Len(passRegistry)
    /\ \E id \in collisionFlagged : objs[id].cls = "Enemy"

InGrid == UNION {SeqToSet(grid[c]) : c \in CellIndexes}

\* C11: an inactive entity takes no part in collision detection: the
\* rebuilt grid holds no inactive object, no category selects one as a
\* candidate, checkCollision is false when either object is inactive, and
\* no handleCollision of a pass is started on a pair with an object that
\* is inactive at that moment.
C11_InactiveExcluded ==
    /\ pc = "bulletEnemy" => \A id \in InGrid : objs[id].active
    /\ \A id \in SeqToSet(ActivePlayerBullets(gameObjects, objs))
                 \cup SeqToSet(ActiveEnemyBullets(gameObjects, objs))
                 \cup SeqToSet(ActiveEnemies(gameObjects, objs))
                 \cup SeqToSet(ActivePickups(gameObjects, objs))
                 \cup ({ActivePlayer(gameObjects, objs)} \ {0}) : objs[id].active
    /\ \A a \in DOMAIN objs, b \in DOMAIN objs :
          (~objs[a].active \/ ~objs[b].active) => ~CheckCollision(objs[a], objs[b])
    /\ \A k \in 1 .. Len(callLog) : callLog[k].active1 /\ callLog[k].active2

\* C11 witness: during a pass that made a call, a registered object that a
\* collision of the pass deactivated lies box over box with an active one
C11_Witness ==
    /\ pc \in PassPhases /\ callLog # <<>>
    /\ \E a \in SeqToSet(gameObjects), b \in SeqToSet(gameObjects) :
          /\ ~objs[a].active /\ objs[b].active /\ a \in InGrid
          /\ CheckAABBCollision(objs[a], objs[b])

\* ------------------------------------------ the pickup category on its own
\* A player at (200, 500) and a weapon pickup at an offset from it, each of
\* them active or not; the category runs once.  The offsets put the centres
\* below, at and above the distances 28 and 30.
PickupDxs == {0, Px(17), Px(18), Px(28) - 1, Px(28), Px(29), Px(30), Px(30) + 1, Px(31)}
PickupDys == {0, Px(22), Px(23), Px(24), Px(25)}

InitPickup ==
    /\ now = 0 /\ lastTime = 0 /\ isRunning = TRUE /\ isPaused = FALSE
    /\ pc = "playerPickup" /\ loopI = 0 /\ deltaTime = FrameInterval
    /\ scheduled = {1}
    /\ keys = {} /\ keysPressed = {}
    /\ \E dx \in PickupDxs, dy \in PickupDys, pa \in BOOLEAN, ka \in BOOLEAN :
          objs = <<[ArmedPlayer(Px(200), Px(500)) EXCEPT !.active = pa],
                   [NewWeaponPickup(Px(200) + dx, Px(500) + dy) EXCEPT !.active = ka]>>
    /\ gameObjects = <<1, 2>>
    /\ enemyFormation = [direction |-> 1, isMovingDown |-> FALSE,
                         moveDownTimer |-> 0,
                         enemies |-> <<>>, moveSpeed |-> Vel(FormationBaseSpeed[1]),
                         currentLevel |-> 1]
    /\ gameState = ResetGameState
    /\ sceneManager = [currentScene |-> "game", previousScene |-> "start",
                       isTransitioning |-> FALSE, transitionTimer |-> 0,
                       log |-> <<<<"change", "game">>, <<"init", "game">>>>]
    /\ levelManager = [currentLevel |-> 1, levelState |-> "playing",
                       transitionTimer |-> 0, fired |-> <<>>]
    /\ timers = {}
    /\ grid = UpdateSpatialGrid(gameObjects, objs) /\ collisionPairs = {}
    /\ hookLog = <<>> /\ callLog = <<>>
    /\ ticks = 0 /\ frameTrace = <<>> /\ presses = 0 /\ toggles = 0
    /\ passRegistry = gameObjects /\ collisionFlagged = {} /\ reaped = {}
    /\ nearby = <<>> /\ query = NoQuery /\ overlap = NoOverlap /\ calls = <<>>

NextPickup == PlayerWeaponPickupStep

SpecPickup == InitPickup /\ [][NextPickup]_vars

\* max(width, height) / 2
Radius(o) == Max(o.width, o.height) \div 2

\* the category ran on a registry of a player (1) and a pickup (2)
PickupCategoryRan == pc = "playerPickup" /\ pc' = "level"

\* C12 as stated: the category treats an active player and an active pickup
\* as colliding exactly when their distance is at most the two radii plus
\* the margin of 10, so that at distance 30 the 20x20 player and the 16x16
\* pickup do not collide.
C12_CircleThresholdOnly ==
    [][PickupCategoryRan =>
         (callLog' # <<>> <=>
            /\ objs[1].active /\ objs[2].active
            /\ DistSq(objs[1], objs[2])
                  <= (Radius(objs[1]) + Radius(objs[2]) + Px(10))
                     * (Radius(objs[1]) + Radius(objs[2]) + Px(10)))]_vars

\* C12: the category treats an active player and an active pickup as
\* colliding exactly when their distance is at most 30, or below the two
\* radii plus the margin of 10 (28 for the 20x20 player and the 16x16
\* pickup), and never otherwise: distance 30 collides, more than 30 does not.
C12_WithinThirtyOrCircle ==
    [][PickupCategoryRan =>
         (callLog' # <<>> <=>
            /\ objs[1].active /\ objs[2].active
            /\ \/ DistSq(objs[1], objs[2]) <= Px(30) * Px(30)
               \/ DistSq(objs[1], objs[2])
                     < (Radius(objs[1]) + Radius(objs[2]) + Px(10))
                       * (Radius(objs[1]) + Radius(objs[2]) + Px(10)))]_vars

\* C12 witness: the category has collided an active player and an active
\* pickup at distance exactly 30
C12_Witness ==
    /\ pc = "level" /\ Len(gameObjects) = 2 /\ objs[2].cls = "WeaponPickup"
    /\ DistSq(objs[1], objs[2]) = Px(30) * Px(30)
    /\ callLog # <<>> /\ callLog[1].active1 /\ callLog[1].active2

\* ----------------------------------------------- collision responses
\* the step made the call handleCollision(a, b)
Dispatched(a, b) ==
    /\ Len(callLog') = Len(callLog) + 1
    /\ callLog'[Len(callLog')].obj1 = a /\ callLog'[Len(callLog')].obj2 = b

\* C13: a dispatched collision of an active player and an active pickup,
\* in either argument order, invokes both hooks, destroys the pickup and
\* upgrades the player's weapon exactly once: one step along the weapon
\* progression, or one level at its end.
C13_UpgradedOnce ==
    [][\A p \in {i \in DOMAIN objs : objs[i].cls = "Player" /\ objs[i].active},
          k \in {i \in DOMAIN objs : objs[i].cls = "WeaponPickup" /\ objs[i].active} :
         (Dispatched(p, k) \/ Dispatched(k, p))
         => /\ Len(hookLog') = Len(hookLog) + 2
            /\ ~objs'[k].active /\ objs'[k].shouldDestroy
            /\ IF objs[p].weaponIndex < MaxWeaponIndex
               THEN /\ objs'[p].weaponIndex = objs[p].weaponIndex + 1
                    /\ objs'[p].weaponLevel = objs[p].weaponLevel
               ELSE /\ objs'[p].weaponIndex = objs[p].weaponIndex
                    /\ objs'[p].weaponLevel
                         = Min(MaxWeaponLevel, objs[p].weaponLevel + 1)]_vars

\* C13 witness: a call with the pickup as first argument was made on an
\* active pair; the pickup is gone and the player holds the next weapon
C13_Witness ==
    \E i \in 1 .. Len(callLog) :
        /\ objs[callLog[i].obj1].cls = "WeaponPickup"
        /\ objs[callLog[i].obj2].cls = "Player"
        /\ callLog[i].active1 /\ callLog[i].active2
        /\ ~objs[callLog[i].obj1].active
        /\ objs[callLog[i].obj2].weaponIndex = 1

\* the step resolved a collision of the active player bullet b and the
\* active enemy e: a call in either order that was not a duplicate
BulletHitEnemy(b, e) ==
    /\ Dispatched(b, e) \/ Dispatched(e, b)
    /\ ~callLog'[Len(callLog')].duplicate
    /\ objs[b].cls = "Bullet" /\ objs[b].isPlayerBullet /\ objs[b].active
    /\ objs[e].cls = "Enemy" /\ objs[e].active

\* C14: a resolved collision of a player bullet and an enemy reduces the
\* enemy's health by exactly the bullet's damage, once; an enemy whose
\* health is at least damage + 1 survives the collision.
C14_DamageOnce ==
    [][\A b \in DOMAIN objs, e \in DOMAIN objs :
         BulletHitEnemy(b, e)
         => /\ objs'[e].health = objs[e].health - objs[b].damage
            /\ objs[e].health >= objs[b].damage + 1 => objs'[e].active]_vars

\* C15: on a resolved collision of a player bullet and an enemy a bullet
\* that does not pierce is destroyed, and a piercing bullet whose
\* pierceCount is below maxPierceCount stays active with pierceCount
\* increased by exactly one.
C15_PiercingPassesThrough ==
    [][\A b \in DOMAIN objs, e \in DOMAIN objs :
         BulletHitEnemy(b, e)
         => IF objs[b].piercing /\ objs[b].pierceCount < objs[b].maxPierceCount
            THEN /\ objs'[b].active /\ ~objs'[b].shouldDestroy
                 /\ objs'[b].pierceCount = objs[b].pierceCount + 1
            ELSE ~objs'[b].active /\ objs'[b].shouldDestroy]_vars

\* ------------------------------------------------------- the scheduler
\* The game loop with the calls of start() and stop() between its ticks,
\* from a running game of a player and one enemy.  Ticks count up to MaxTicks as the clock advances;
\* after that the loop goes on at a clock that reads the same, so that a
\* run of the loop never ends for lack of time.
MaxLoops == 2

\* a mutant of Start: start() without the test of isRunning
StartAlways ==
    /\ pc = "idle" /\ Cardinality(scheduled) < MaxLoops
    /\ isRunning' = TRUE /\ isPaused' = FALSE
    /\ lastTime' = now /\ deltaTime' = 0
    /\ scheduled' = scheduled
                      \cup {CHOOSE n \in 1 .. (Cardinality(scheduled) + 1) : n \notin scheduled}
    /\ UNCHANGED <<now, pc, loopI, inputVars, worldVars, grid, historyVars, probeVars>>

\* start(): nothing when the loop runs; else the flags, the time reference
\* and a first gameLoop(), which finds no time elapsed and requests a frame
Start ==
    /\ pc = "idle" /\ Cardinality(scheduled) < MaxLoops
    /\ IF isRunning THEN UNCHANGED vars
       ELSE /\ isRunning' = TRUE /\ isPaused' = FALSE
            /\ lastTime' = now /\ deltaTime' = 0
            /\ ~StepDue(0)
            /\ scheduled' = scheduled
                  \cup {CHOOSE n \in 1 .. (Cardinality(scheduled) + 1) : n \notin scheduled}
            /\ UNCHANGED <<now, pc, loopI, inputVars, worldVars, grid, historyVars,
                           probeVars>>

\* stop()
Stop ==
    /\ pc = "idle"
    /\ isRunning' = FALSE
    /\ UNCHANGED <<now, lastTime, isPaused, pc, loopI, deltaTime, scheduled, inputVars,
                   worldVars, grid, historyVars, probeVars>>

\* a mutant of TickStopped: the callback requests the next frame all the same
TickStoppedRequests ==
    /\ ~isRunning /\ pc = "idle" /\ scheduled # {}
    /\ scheduled' = NextScheduled(scheduled)
    /\ UNCHANGED <<now, lastTime, isRunning, isPaused, pc, loopI, deltaTime, inputVars,
                   worldVars, grid, historyVars, probeVars>>

\* gameLoop as the callback of a request made before stop(): it returns at
\* once
TickStopped ==
    /\ ~isRunning /\ pc = "idle" /\ scheduled # {}
    /\ scheduled' = scheduled \ {CHOOSE r \in scheduled : TRUE}
    /\ UNCHANGED <<now, lastTime, isRunning, isPaused, pc, loopI, deltaTime, inputVars,
                   worldVars, grid, historyVars, probeVars>>

\* gameLoop after the last clock advance: the clock reads the same, less
\* than a frame interval has passed
TickAtHorizon ==
    /\ isRunning /\ pc = "idle" /\ ticks = MaxTicks /\ scheduled # {}
    /\ deltaTime' = now - lastTime
    /\ ~StepDue(deltaTime')
    /\ scheduled' = NextScheduled(scheduled)
    /\ frameTrace' = <<>> /\ reaped' = {}
    /\ UNCHANGED <<now, lastTime, isRunning, isPaused, pc, loopI, inputVars, worldVars,
                   grid, ticks, presses, toggles, passRegistry, collisionFlagged,
                   probeVars>>

\* the player and one enemy
InitScheduler ==
    GameInPlay(SubSeq(GameObjectsInPlay(FALSE, PlayerMaxHealth, FALSE), 1, 2), <<2>>)

\* gameLoop runs as the callback of a pending request
RunLoop ==
    \/ TickNoStep \/ TickPausedStep \/ TickBeginUpdate
    \/ TickAtHorizon \/ TickStopped

\* a step that has begun goes on
RunStep ==
    \/ UpdateStep \/ SceneStep
    \/ CollisionBegin
    \/ PlayerBulletEnemyStep \/ EnemyBulletPlayerStep
    \/ PlayerEnemyStep \/ PlayerWeaponPickupStep
    \/ LevelStep \/ FinishStep

\* no key is pressed: the game is never paused
NextScheduler ==
    \/ Start \/ Stop
    \/ TickNoStep \/ TickBeginUpdate \/ TickAtHorizon \/ TickStopped
    \/ RunStep

SpecScheduler == InitScheduler /\ [][NextScheduler]_vars

\* The loop with start(), stop() and the pause key, from the engine as it
\* is constructed: the start scene, no game object yet, start() not called.  A step is then the scene manager's
\* update and the end of the step.  The browser runs every requested
\* callback and a step that has begun runs to its end: weak fairness of both.
InitLoop ==
    /\ EngineConstructed
    /\ objs = <<>> /\ gameObjects = <<>>
    /\ grid = EmptyGrid /\ collisionPairs = {}
    /\ hookLog = <<>> /\ callLog = <<>>
    /\ gameState = ResetGameState
    /\ nearby = <<>> /\ query = NoQuery /\ overlap = NoOverlap /\ calls = <<>>

RunStartScene == SceneStep \/ FinishStep

NextLoop ==
    \/ Start \/ Stop
    \/ RunLoop \/ RunStartScene
    \/ KeyDown \/ KeyUp

SpecLoop ==
    InitLoop /\ [][NextLoop]_vars /\ WF_vars(RunLoop) /\ WF_vars(RunStartScene)

\* Stopped, Running or Running-Paused, from the two flags
SchedulerState(running, paused) ==
    IF ~running THEN "Stopped" ELSE IF paused THEN "RunningPaused" ELSE "Running"

\* C16: the scheduler moves between Stopped, Running and Running-Paused
\* only so: from Stopped to Running by start(), with the pause flag cleared
\* and the time reference reset to the clock; between Running and
\* Running-Paused by a pause toggle; from either to Stopped by stop(), which
\* changes nothing else.  While the loop runs, start() has no effect: no
\* second loop is requested and the time reference moves only at the end of
\* a step.
C16_StateMachine ==
    [][LET s == SchedulerState(isRunning, isPaused)
           t == SchedulerState(isRunning', isPaused')
       IN /\ s # t =>
               \/ /\ s = "Stopped" /\ t = "Running"
                  /\ lastTime' = now' /\ now' = now
                  /\ Cardinality(scheduled') = Cardinality(scheduled) + 1
               \/ /\ {s, t} = {"Running", "RunningPaused"}
                  /\ toggles' = toggles + 1 /\ IsPausePressed(keysPressed)
               \/ /\ s # "Stopped" /\ t = "Stopped"
                  /\ isPaused' = isPaused /\ lastTime' = lastTime
                  /\ scheduled' = scheduled /\ pc' = pc
          /\ (isRunning /\ isRunning') =>
               /\ Cardinality(scheduled') = Cardinality(scheduled)
               /\ lastTime' # lastTime =>
                     /\ pc' = "idle" /\ frameTrace' # <<>>
                     /\ frameTrace'[Len(frameTrace')] = "render"]_vars

\* C16 witness: the loop runs unpaused after a single pause toggle, with
\* the time reference at the clock: start() after stop() cleared the flag
C16_Witness ==
    /\ isRunning /\ ~isPaused /\ toggles = 1 /\ pc = "idle"
    /\ now > 0 /\ lastTime = now /\ deltaTime = 0 /\ Cardinality(scheduled) = 2

\* C17: from stop() on and as long as the scheduler stays stopped, no step
\* is in progress, no object is updated, no collision pass and no render
\* runs, and a callback that was already requested requests no other.
C17_StoppedIsFrozen ==
    [][~isRunning' =>
         /\ pc = "idle" /\ pc' = "idle"
         /\ objs' = objs /\ gameObjects' = gameObjects /\ grid' = grid
         /\ hookLog' = hookLog /\ callLog' = callLog
         /\ frameTrace' = frameTrace /\ lastTime' = lastTime
         /\ scheduled' \subseteq scheduled]_vars

\* C17 witness: after a step of the game the scheduler is stopped and the
\* callback requested before stop() has run: no request is pending
C17_Witness ==
    /\ ~isRunning /\ pc = "idle" /\ scheduled = {}
    /\ ticks > 0 /\ Len(frameTrace) = 2

\* C18: while the scheduler is not stopped a request for the next tick is
\* pending after every tick, with or without a step, paused or not; so the
\* running loop ticks again and again unless the scheduler is stopped.
C18_TicksForever ==
    /\ [](isRunning /\ pc = "idle" => scheduled # {})
    /\ ([]<><<RunLoop /\ isRunning>>_vars) \/ ([]<>(~isRunning))

\* C18 witness: the paused loop has run a tick without a step after the
\* last clock advance, and a request for the next tick is pending
C18_Witness ==
    /\ isRunning /\ isPaused /\ pc = "idle" /\ ticks = MaxTicks
    /\ frameTrace = <<>> /\ scheduled # {}

\* ------------------------------------------------ long and short ticks
\* how many times update() ran in the current tick
Updates == Cardinality({i \in 1 .. Len(frameTrace) : frameTrace[i] = "update"})

\* how many times render() ran in the current tick
Renders == Cardinality({i \in 1 .. Len(frameTrace) : frameTrace[i] = "render"})

\* C19: however much time has elapsed, a tick runs at most one step (one
\* update, one render), and between ticks less than one frame interval of
\* elapsed time stands to the credit of the next step: what a long tick
\* leaves beyond that is dropped, not carried into later ticks.
C19_StepsCappedNoBacklog ==
    /\ Updates <= 1 /\ Renders <= 1
    /\ pc = "idle" => (0 <= now - lastTime /\ now - lastTime < FrameInterval)

\* C19 witness: a tick that found a second or more elapsed has run its one
\* step and left less than a frame interval
C19_Witness ==
    /\ pc = "idle" /\ deltaTime >= Ms(1000)
    /\ frameTrace = <<"update", "render">>
    /\ now - lastTime < FrameInterval

\* the tick that has just ended was not one of a paused game
UnpausedTickEnded ==
    /\ pc = "idle" /\ ticks > 0
    /\ frameTrace = <<>> \/ frameTrace[1] = "update"

\* C20 as stated: elapsed time of k whole frame intervals and a remainder
\* makes the tick run exactly k steps and keep the remainder.
C20_StepPerWholeInterval ==
    UnpausedTickEnded =>
        /\ Updates = deltaTime \div FrameInterval
        /\ now - lastTime = deltaTime % FrameInterval

\* C20: elapsed time of k whole frame intervals and a remainder makes the
\* tick run exactly one step if k >= 1 and none if k = 0, and keep the
\* remainder.
C20_OneStepKeepsRemainder ==
    UnpausedTickEnded =>
        /\ Updates = (IF deltaTime \div FrameInterval >= 1 THEN 1 ELSE 0)
        /\ now - lastTime = deltaTime % FrameInterval

\* C20 witness: a tick with at least two whole frame intervals and a
\* remainder has run one step and kept the remainder
C20_Witness ==
    /\ UnpausedTickEnded /\ Updates = 1
    /\ deltaTime \div FrameInterval >= 2 /\ deltaTime % FrameInterval > 0
    /\ now - lastTime = deltaTime % FrameInterval

\* ------------------------------------------ the state of the collision phase
\* the bucket holds no object twice
NoRepeat(bucket) ==
    \A i \in 1 .. Len(bucket), j \in 1 .. Len(bucket) : bucket[i] = bucket[j] => i = j

\* C21: when the detection of a frame begins, every bucket of the grid
\* holds, once each, exactly the active objects of the registry whose
\* bounds overlap the cell, and the set of pair keys is empty, whatever the
\* earlier frames left behind; so a call of the pass is taken for a
\* duplicate only if the same call was made earlier in the same pass.
C21_NoLeakAcrossFrames ==
    /\ pc = "bulletEnemy" =>
          /\ collisionPairs = {}
          /\ \A c \in CellIndexes :
                /\ NoRepeat(grid[c])
                /\ SeqToSet(grid[c])
                      = {id \in SeqToSet(gameObjects) :
                            objs[id].active /\ CellOverlaps(c, objs[id])}
    /\ \A k \in 1 .. Len(callLog) :
          callLog[k].duplicate
             => \E j \in 1 .. (k - 1) :
                   /\ callLog[j].obj1 = callLog[k].obj1
                   /\ callLog[j].obj2 = callLog[k].obj2

\* C21 witness: the detection of the second frame begins after the pass of
\* the first frame resolved a collision that killed an enemy: the pair set
\* is empty and the dead enemy is in no bucket
C21_Witness ==
    /\ pc = "bulletEnemy" /\ ticks = 2 /\ gameState.score > 0
    /\ collisionPairs = {} /\ InGrid # {}
    /\ \E e \in DOMAIN objs :
          objs[e].cls = "Enemy" /\ ~objs[e].active /\ e \notin InGrid

\* ------------------------------------------------- the grid's queries
\* the cells in whose bucket the grid holds both objects: a is in every
\* cell its bounds overlap whether it was inserted or not
SharedCells(a, b) ==
    {c \in CellIndexes : CellOverlaps(c, objs[a]) /\ Contains(grid[c], b)}

\* C22: getNearbyObjects(obj, targets) returns, once each, exactly the
\* objects that are in targets, are not obj and are held in a cell that
\* obj's bounds overlap.
C22_NearbyExact ==
    query.id # 0 =>
        /\ NoRepeat(nearby)
        /\ SeqToSet(nearby)
              = {t \in SeqToSet(query.targets) \ {query.id} :
                    SharedCells(query.id, t) # {}}

\* C22 witness: a query with itself among the targets returned the other
\* object once, and the two share more than one cell
C22_Witness ==
    /\ query.id # 0 /\ Contains(query.targets, query.id)
    /\ Len(nearby) = 1
    /\ Cardinality(SharedCells(query.id, nearby[1])) > 1

\* the object lies entirely outside the area the grid's cells cover,
\* [0, cols * cellSize) x [0, rows * cellSize)
OutsideCells(o) ==
    LET b == GetBounds(o)
    IN \/ b.right < 0 \/ b.left >= Cols * CellSize
       \/ b.bottom < 0 \/ b.top >= Rows * CellSize

\* C23: whatever the position and the size of an object, insert and
\* getNearbyObjects touch only the buckets 0 .. rows * cols - 1, and an
\* object that lies entirely outside the area of the grid's cells is
\* inserted into no cell and gets an empty result from its query.
C23_GridNeverFails ==
    /\ DOMAIN grid = CellIndexes
    /\ \A id \in DOMAIN objs :
          /\ SeqToSet(InsertCells(GetBounds(objs[id]))) \subseteq CellIndexes
          /\ SeqToSet(QueryCells(GetBounds(objs[id]))) \subseteq CellIndexes
          /\ OutsideCells(objs[id]) =>
                /\ InsertCells(GetBounds(objs[id])) = <<>>
                /\ id \notin InGrid
                /\ query.id = id => nearby = <<>>

\* C23 witness: the grid was rebuilt and queried from an active object that
\* lies beyond the last column of cells, while the other object, partly
\* off the left edge, is held by the grid
C23_Witness ==
    /\ query.id # 0 /\ objs[query.id].active /\ nearby = <<>>
    /\ GetBounds(objs[query.id]).left >= Cols * CellSize
    /\ Contains(query.targets, 3 - query.id)
    /\ (3 - query.id) \in InGrid
    /\ GetBounds(objs[3 - query.id]).left < 0

\* ------------------------------------------- the box test on its own
\* Two objects of any two classes, each active or not, the second to the
\* left of, level with or to the right of the first and above, level with
\* or below it, the boxes a sixth of a pixel into each other, touching or
\* a sixth of a pixel apart; checkCollision and collidesWith are called on
\* them in either order.
OverlapKinds == {"Player", "Enemy", "StrongEnemy", "PlayerBullet", "EnemyBullet",
                 "WeaponPickup"}

OverlapObject(kind, x, y) ==
    CASE kind = "Player" -> ArmedPlayer(x, y)
      [] kind = "Enemy" -> NewEnemy(x, y, "basic")
      [] kind = "StrongEnemy" -> NewEnemy(x, y, "strong")
      [] kind = "PlayerBullet" -> NewBullet(x, y, 0, 0 - Vel(400), TRUE)
      [] kind = "EnemyBullet" -> NewBullet(x, y, 0, Vel(EnemyBulletSpeed), FALSE)
      [] kind = "WeaponPickup" -> NewWeaponPickup(x, y)

InitOverlap ==
    /\ EngineConstructed
    /\ \E k1 \in OverlapKinds, k2 \in OverlapKinds, a1 \in BOOLEAN, a2 \in BOOLEAN,
          sideX \in {0 - 1, 0, 1}, sideY \in {0 - 1, 0, 1},
          gapX \in {0 - 1, 0, 1}, gapY \in {0 - 1, 0, 1} :
          LET o1 == OverlapObject(k1, Px(200), Px(300))
              o0 == OverlapObject(k2, 0, 0)
              dx == sideX * (o1.width \div 2 + o0.width \div 2 + gapX)
              dy == sideY * (o1.height \div 2 + o0.height \div 2 + gapY)
          IN objs = <<[o1 EXCEPT !.active = a1],
                      [o0 EXCEPT !.x = o1.x + dx, !.y = o1.y + dy, !.active = a2]>>
    /\ gameObjects = <<1, 2>>
    /\ grid = EmptyGrid
    /\ collisionPairs = {}
    /\ hookLog = <<>> /\ callLog = <<>>
    /\ gameState = ResetGameState
    /\ nearby = <<>> /\ query = NoQuery /\ overlap = NoOverlap /\ calls = <<>>

\* checkCollision(a, b) and a.collidesWith(b)
OverlapTest ==
    /\ \E a \in DOMAIN objs, b \in DOMAIN objs :
          /\ a # b
          /\ overlap' = [a |-> a, b |-> b,
                         checkCollision |-> CheckCollision(objs[a], objs[b]),
                         collidesWith |-> CollidesWith(objs[a], objs[b])]
    /\ UNCHANGED <<engineVars, inputVars, gameObjects, objs, grid, collisionPairs,
                   logVars, gameState, managerVars, historyVars, nearby, query,
                   calls>>

NextOverlap == OverlapTest

SpecOverlap == InitOverlap /\ [][NextOverlap]_vars

\* C24: for two active objects that are not a player and a weapon pickup,
\* checkCollision(a, b) is true exactly when along neither axis the centres
\* are further apart than the two half extents together (boxes that only
\* touch overlap), checkCollision(b, a) gives the same, and so does
\* a.collidesWith(b).
C24_BoxOverlap ==
    overlap.a # 0 =>
        LET o1 == objs[overlap.a]
            o2 == objs[overlap.b]
        IN (o1.active /\ o2.active /\ ~IsPickupPair(o1, o2)) =>
              /\ overlap.checkCollision
                    <=> /\ Abs(o1.x - o2.x) <= o1.width \div 2 + o2.width \div 2
                        /\ Abs(o1.y - o2.y) <= o1.height \div 2 + o2.height \div 2
              /\ overlap.checkCollision <=> CheckCollision(o2, o1)
              /\ overlap.collidesWith <=> overlap.checkCollision

\* C24 witness: the second object was tested against the first, both
\* active, an enemy and a bullet whose boxes only touch along x, and both
\* tests found them overlapping
C24_Witness ==
    /\ overlap.a = 2 /\ objs[1].active /\ objs[2].active
    /\ {objs[1].cls, objs[2].cls} = {"Enemy", "Bullet"}
    /\ Abs(objs[1].x - objs[2].x) = objs[1].width \div 2 + objs[2].width \div 2
    /\ overlap.checkCollision /\ overlap.collidesWith

\* ------------------------------------------------------------ rendering
\* the step was one that ran render(): the paused tick, or the end of a
\* step of the running game
RenderRan ==
    /\ frameTrace' # <<>> /\ frameTrace'[Len(frameTrace')] = "render"
    /\ ticks' = ticks + 1 \/ Len(frameTrace') = Len(frameTrace) + 1

\* render() left the registry, every registered object and the managers as
\* they were, and the pause flag changed, if at all, by the pause input that
\* the tick checked before it rendered
RenderReadsOnly ==
    RenderRan =>
        /\ gameObjects' = gameObjects
        /\ \A id \in SeqToSet(gameObjects) : objs'[id] = objs[id]
        /\ gameState' = gameState /\ managerVars' = managerVars
        /\ isPaused' # isPaused => (pc = "idle" /\ IsPausePressed(keysPressed))
        /\ Render(World, isPaused).w = World
        /\ Render(World, isPaused).paused = isPaused

\* C25 as stated: render() runs once in every tick, paused or not, and
\* changes nothing of the simulation.
C25_RenderEveryTick ==
    /\ []((pc = "idle" /\ ticks > 0) => Renders = 1)
    /\ [][RenderReadsOnly]_vars

\* C25: render() runs once in every tick that runs a step, paused or not,
\* and not in a tick that finds less than a frame interval elapsed; it
\* changes no position, no activity flag, no registry entry and not the
\* pause flag.
C25_RenderEveryStep ==
    /\ []((pc = "idle" /\ ticks > 0)
            => Renders = (IF StepDue(deltaTime) THEN 1 ELSE 0))
    /\ [][RenderReadsOnly]_vars

\* C25 witness: a tick of the paused game has rendered, the pause overlay
\* included, a registry that holds an object flagged for destruction
C25_Witness ==
    /\ isPaused /\ pc = "idle" /\ frameTrace = <<"render">>
    /\ Render(World, isPaused).overlay
    /\ \E i \in 1 .. Len(Render(World, isPaused).drawn) :
          objs[Render(World, isPaused).drawn[i]].shouldDestroy

\* ------------------------------------------------ one pass on its own
\* One call of CollisionSystem.update() on a crowded spot: the player, an
\* enemy over the player with a player bullet in it, a second enemy over
\* the player, two enemy bullets in the player and a weapon pickup next to
\* it.  The player is sound, at its last health point, invulnerable,
\* inactive, or not in the registry; any of the other objects may be absent.
PlayerStates == {"sound", "weak", "invulnerable", "inactive", "absent"}

PassPlayer(state) ==
    LET p == ArmedPlayer(Px(400), Px(550))
    IN CASE state = "sound" -> <<p>>
         [] state = "weak" -> <<[p EXCEPT !.health = 1]>>
         [] state = "invulnerable" ->
                <<[p EXCEPT !.health = 2, !.invulnerable = TRUE,
                            !.invulnerabilityTime = Ms(InvulnerabilityMs) - FrameInterval]>>
         [] state = "inactive" -> <<[p EXCEPT !.health = 0, !.active = FALSE]>>
         [] state = "absent" -> <<>>

PassOthers ==
    <<ScaledEnemy(NewEnemy(Px(396), Px(538), "basic"), 1, Vel(50)),
      WeaponBullet(ArmedPlayer(0, 0), Px(394), Px(532), 0, 0 - Vel(400)),
      ScaledEnemy(NewEnemy(Px(412), Px(556), "basic"), 1, Vel(50)),
      NewBullet(Px(400), Px(545), 0, Vel(EnemyBulletSpeed), FALSE),
      NewBullet(Px(405), Px(552), 0, Vel(EnemyBulletSpeed), FALSE),
      NewWeaponPickup(Px(400), Px(560))>>

\* the objects of PassOthers whose index is in present, in their order
RECURSIVE Present(_, _)
Present(present, i) ==
    IF i > Len(PassOthers) THEN <<>>
    ELSE (IF i \in present THEN <<PassOthers[i]>> ELSE <<>>) \o Present(present, i + 1)

InitPass ==
    /\ now = FrameInterval /\ lastTime = 0 /\ isRunning = TRUE /\ isPaused = FALSE
    /\ pc = "collide" /\ loopI = 0 /\ deltaTime = FrameInterval
    /\ scheduled = {1}
    /\ keys = {} /\ keysPressed = {}
    /\ \E state \in PlayerStates, present \in SUBSET (1 .. Len(PassOthers)) :
          /\ objs = PassPlayer(state) \o Present(present, 1)
          /\ gameState = [ResetGameState EXCEPT
                             !.gameStatus = "playing",
                             !.lives = IF state \in {"sound", "absent"} THEN InitialLives
                                       ELSE IF state = "invulnerable" THEN 2
                                       ELSE IF state = "weak" THEN 1 ELSE 0]
    /\ gameObjects = [i \in 1 .. Len(objs) |-> i]
    /\ enemyFormation = [direction |-> 1, isMovingDown |-> FALSE,
                         moveDownTimer |-> 0,
                         enemies |-> SelectSeq(gameObjects,
                                               LAMBDA id : objs[id].cls = "Enemy"),
                         moveSpeed |-> Vel(FormationBaseSpeed[1]),
                         currentLevel |-> 1]
    /\ sceneManager = [currentScene |-> "game", previousScene |-> "start",
                       isTransitioning |-> FALSE, transitionTimer |-> 0,
                       log |-> <<<<"change", "game">>, <<"init", "game">>>>]
    /\ levelManager = [currentLevel |-> 1, levelState |-> "playing",
                       transitionTimer |-> 0, fired |-> <<>>]
    /\ timers = {}
    /\ grid = EmptyGrid /\ collisionPairs = {}
    /\ hookLog = <<>> /\ callLog = <<>>
    /\ ticks = 1 /\ frameTrace = <<"update">> /\ presses = 0 /\ toggles = 0
    /\ passRegistry = <<>> /\ collisionFlagged = {} /\ reaped = {}
    /\ nearby = <<>> /\ query = NoQuery /\ overlap = NoOverlap /\ calls = <<>>

NextPass ==
    \/ CollisionBegin
    \/ PlayerBulletEnemyStep \/ EnemyBulletPlayerStep
    \/ PlayerEnemyStep \/ PlayerWeaponPickupStep

SpecPass == InitPass /\ [][NextPass]_vars

\* the category that runs from this position finds no active player
NoActivePlayer ==
    \A id \in SeqToSet(gameObjects) : ~(objs[id].cls = "Player" /\ objs[id].active)

\* the three categories that involve the player, and what follows each
PlayerCategories ==
    {<<"bulletPlayer", "playerEnemy">>, <<"playerEnemy", "playerPickup">>,
     <<"playerPickup", "level">>}

\* C26: a category that involves the player and finds no active player in
\* the registry invokes no hook, makes no call and changes no object, and
\* the pass goes on to the next category; the bullet-enemy category does
\* its work without a player.
C26_SkippedWithoutPlayer ==
    [][NoActivePlayer =>
         /\ \A c \in PlayerCategories :
               pc = c[1] =>
                  /\ pc' = c[2]
                  /\ hookLog' = hookLog /\ callLog' = callLog
                  /\ objs' = objs /\ gameObjects' = gameObjects
                  /\ gameState' = gameState /\ collisionPairs' = collisionPairs
         /\ pc = "bulletEnemy" =>
               /\ pc' = "bulletPlayer"
               /\ (\E b \in SeqToSet(ActivePlayerBullets(gameObjects, objs)),
                      e \in SeqToSet(ActiveEnemies(gameObjects, objs)) :
                      CheckCollision(objs[b], objs[e]))
                    => Len(hookLog') >= 2]_vars

\* C26 witness: a pass has run to its end around an inactive player with an
\* active enemy and an active enemy bullet box over box with it and an
\* active pickup within reach; its only hooks are those of the player
\* bullet and the enemy it killed
C26_Witness ==
    /\ pc = "level" /\ Len(hookLog) = 2
    /\ \E p \in SeqToSet(gameObjects) :
          /\ objs[p].cls = "Player" /\ ~objs[p].active
          /\ \E e \in SeqToSet(ActiveEnemies(gameObjects, objs)) :
                CheckAABBCollision(objs[p], objs[e])
          /\ \E b \in SeqToSet(ActiveEnemyBullets(gameObjects, objs)) :
                CheckAABBCollision(objs[p], objs[b])
          /\ \E k \in SeqToSet(ActivePickups(gameObjects, objs)) :
                DistSq(objs[p], objs[k]) <= Px(PickupNearPx) * Px(PickupNearPx)
    /\ \E i \in 1 .. 2 : objs[hookLog[i].self].cls = "Enemy"
                          /\ ~objs[hookLog[i].self].active

\* the categories in their order: where the pass stands, where it goes
\* next, and the two kinds of object of each call, first argument first
CategoryOrder ==
    <<<<"bulletEnemy", "bulletPlayer", "PlayerBullet", "Enemy">>,
      <<"bulletPlayer", "playerEnemy", "EnemyBullet", "Player">>,
      <<"playerEnemy", "playerPickup", "Player", "Enemy">>,
      <<"playerPickup", "level", "Player", "WeaponPickup">>>>

\* the kind of an object, the bullets by their side
KindOf(o) ==
    IF o.cls = "Bullet"
    THEN (IF o.isPlayerBullet THEN "PlayerBullet" ELSE "EnemyBullet")
    ELSE o.cls

\* C29: the pass runs the categories in the order player bullets against
\* enemies, enemy bullets against the player, the player against enemies,
\* the player against pickups, and each category calls handleCollision
\* only for objects of its two kinds that are active when it starts.  So
\* an object a collision of an earlier category of the pass has
\* deactivated or flagged is in no call and no hook of a later one: an
\* enemy a bullet has killed does not reach the player in that pass.
C29_CategoryOrder ==
    [][\A n \in 1 .. Len(CategoryOrder) :
          pc = CategoryOrder[n][1] =>
             /\ pc' = CategoryOrder[n][2]
             /\ Len(callLog') >= Len(callLog)
             /\ \A k \in (Len(callLog) + 1) .. Len(callLog') :
                   LET c == callLog'[k]
                   IN /\ KindOf(objs[c.obj1]) = CategoryOrder[n][3]
                      /\ KindOf(objs[c.obj2]) = CategoryOrder[n][4]
                      /\ objs[c.obj1].active /\ objs[c.obj2].active
                      /\ {c.obj1, c.obj2} \cap collisionFlagged = {}
             /\ \A k \in (Len(hookLog) + 1) .. Len(hookLog') :
                   LET h == hookLog'[k]
                   IN /\ objs[h.self].active /\ objs[h.other].active
                      /\ {h.self, h.other} \cap collisionFlagged = {}]_vars

\* C29 witness: at the end of a pass an enemy lies box over box with the
\* active player; a player bullet has killed it, and the player has met
\* another enemy but not this one
C29_Witness ==
    /\ pc = "level"
    /\ \E p \in SeqToSet(gameObjects), e \in SeqToSet(gameObjects) :
          /\ objs[p].cls = "Player" /\ objs[p].active
          /\ objs[e].cls = "Enemy" /\ ~objs[e].active /\ e \in collisionFlagged
          /\ CheckAABBCollision(objs[p], objs[e])
          /\ \E i \in 1 .. Len(callLog) :
                /\ callLog[i].obj2 = e
                /\ KindOf(objs[callLog[i].obj1]) = "PlayerBullet"
          /\ \A i \in 1 .. Len(callLog) :
                ~(callLog[i].obj1 = p /\ callLog[i].obj2 = e)
          /\ \E i \in 1 .. Len(callLog) :
                /\ callLog[i].obj1 = p
                /\ objs[callLog[i].obj2].cls = "Enemy"

\* the players of the registry
Players == {id \in SeqToSet(gameObjects) : objs[id].cls = "Player"}

\* C30: a step of the pass that finds the player invulnerable leaves the
\* player's health and the lives of the game state as they are, whatever
\* hits the player.  And whatever a pass brings together on the player, by
\* any moment of the pass the player has lost at most one health point
\* since the first hook of the pass that involved it, and no life before.
C30_OnePointPerPass ==
    /\ [][\A p \in Players :
             objs[p].invulnerable
                => /\ objs'[p].health = objs[p].health
                   /\ objs'[p].invulnerable
                   /\ gameState'.lives = gameState.lives]_vars
    /\ [](\A p \in Players :
             /\ \A i \in 1 .. Len(hookLog) :
                   /\ hookLog[i].self = p => hookLog[i].selfHealth - objs[p].health <= 1
                   /\ hookLog[i].other = p => hookLog[i].otherHealth - objs[p].health <= 1
             /\ (\A i \in 1 .. Len(hookLog) : p \notin {hookLog[i].self, hookLog[i].other})
                   => gameState.lives = objs[p].health)

\* C30 witness: at the end of a pass the player has met two enemy bullets
\* and two enemies and has lost one health point and one life
C30_Witness ==
    /\ pc = "level"
    /\ \E p \in Players :
          /\ objs[p].active /\ objs[p].invulnerable
          /\ objs[p].health = PlayerMaxHealth - 1
          /\ gameState.lives = InitialLives - 1
          /\ Cardinality({hookLog[i].other : i \in {j \in 1 .. Len(hookLog) :
                                                      hookLog[j].self = p}}) >= 4
          /\ hookLog[1].other = p /\ hookLog[1].otherHealth = PlayerMaxHealth

\* ------------------------------------------------- the level manager
\* The frame loop over the end of a game: from the collision pass of a
\* step of the last level, in which the last enemy is shot, through the
\* level transition and the victory screen to a new game started with the
\* Enter key.  The ticks are long ones, so that MaxLevelTicks of them cover
\* the delays.
MaxLevelTicks == 5

LevelAdvances == {Ms(250), Ms(1000)}

SceneKeys == {"Enter", "Escape"}

\* the player, the last enemy of the formation and the player's bullet on it
LastEnemyInPlay(level) ==
    LET p == ArmedPlayer(Px(400), Px(550))
    IN <<p,
         ScaledEnemy(NewEnemy(Px(400), Px(80), "basic"), level,
                     Vel(FormationBaseSpeed[level])),
         WeaponBullet(p, Px(400), Px(86), 0, 0 - Vel(WeaponBulletSpeeds[1]))>>

InitLevel ==
    /\ now = FrameInterval /\ lastTime = 0 /\ isRunning = TRUE /\ isPaused = FALSE
    /\ pc = "collide" /\ loopI = 0 /\ deltaTime = FrameInterval
    /\ scheduled = {1}
    /\ keys = {} /\ keysPressed = {}
    /\ objs = LastEnemyInPlay(MaxLevel)
    /\ gameObjects = <<1, 2, 3>>
    /\ enemyFormation = [direction |-> 1, isMovingDown |-> FALSE,
                         moveDownTimer |-> 0,
                         enemies |-> <<2>>,
                         moveSpeed |-> Vel(FormationBaseSpeed[MaxLevel]),
                         currentLevel |-> MaxLevel]
    /\ gameState = [ResetGameState EXCEPT !.gameStatus = "playing", !.level = MaxLevel]
    /\ sceneManager = [currentScene |-> "game", previousScene |-> "start",
                       isTransitioning |-> FALSE, transitionTimer |-> 0,
                       log |-> <<<<"change", "game">>, <<"init", "game">>>>]
    /\ levelManager = [currentLevel |-> MaxLevel, levelState |-> "playing",
                       transitionTimer |-> 0, fired |-> <<>>]
    /\ timers = {}
    /\ grid = EmptyGrid /\ collisionPairs = {}
    /\ hookLog = <<>> /\ callLog = <<>>
    /\ ticks = 1 /\ frameTrace = <<"update">> /\ presses = 0 /\ toggles = 0
    /\ passRegistry = <<>> /\ collisionFlagged = {} /\ reaped = {}
    /\ nearby = <<>> /\ query = NoQuery /\ overlap = NoOverlap /\ calls = <<>>

\* gameLoop when a step is due and the game runs, as TickBeginUpdate
TickLevelUpdate ==
    /\ isRunning /\ pc = "idle" /\ ticks < MaxLevelTicks /\ scheduled # {}
    /\ \E adv \in LevelAdvances :
          /\ now' = now + adv
          /\ deltaTime' = now' - lastTime
          /\ StepDue(deltaTime')
    /\ isPaused' = HandlePauseInput(isPaused, keysPressed)
    /\ RunsUpdate(isPaused')
    /\ toggles' = IF isPaused' # isPaused THEN toggles + 1 ELSE toggles
    /\ loopI' = Len(gameObjects)
    /\ pc' = IF Len(gameObjects) = 0 THEN "scene" ELSE "update"
    /\ ticks' = ticks + 1 /\ frameTrace' = <<"update">> /\ reaped' = {}
    /\ UNCHANGED <<lastTime, isRunning, scheduled, inputVars, worldVars, grid,
                   presses, passRegistry, collisionFlagged, probeVars>>

\* the keydown listener, for a key the scenes read
SceneKeyDown ==
    /\ pc = "idle"
    /\ \E key \in SceneKeys :
          /\ key \notin keys
          /\ keysPressed' = keysPressed \cup {key}
          /\ keys' = keys \cup {key}
    /\ UNCHANGED <<idleFrame, presses>>

NextLevel ==
    \/ TickLevelUpdate \/ RunStep
    \/ SceneKeyDown \/ KeyUp \/ TimerFire

SpecLevel == InitLevel /\ [][NextLevel]_vars

\* how often the level manager has fired an event since the last startLevel
FiredCount(event) ==
    Cardinality({i \in 1 .. Len(levelManager.fired) : levelManager.fired[i][1] = event})

LevelEvents == {"levelClear", "gameOver", "gameComplete"}

\* C27: between one startLevel and the next the level manager fires each of
\* its events at most once, with the points that go with it: level clear,
\* game over and game complete (CompletionBonus); and levelState leaves
\* playing only for cleared or failed and comes back to playing only by
\* startLevel, which begins a new list of events.
C27_EventsOncePerAttempt ==
    /\ [](\A event \in LevelEvents : FiredCount(event) <= 1)
    /\ [][/\ levelManager.levelState # levelManager'.levelState
             => \/ /\ levelManager.levelState = "playing"
                   /\ levelManager'.levelState \in {"cleared", "failed"}
                \/ /\ levelManager'.levelState = "playing"
                   /\ levelManager'.fired = <<>>]_vars

\* the scene a timer of the engine asks for
TimerScene(t) == IF t.kind = "showVictory" THEN "victory" ELSE "gameOver"

\* C28: changeScene does nothing while a transition is in progress or when
\* the scene asked for is the current one; otherwise the current scene
\* changes at once and a transition begins.  The new scene is initialised
\* exactly once, by the scene manager's update that brings the update time
\* of the transition to SceneTransitionMs.  So the log of the scene manager
\* alternates between a change to a scene other than the current one and
\* the initialisation of that scene, and the last change is not yet
\* followed by its initialisation exactly while the transition lasts.
C28_SceneChange ==
    /\ [](LET log == sceneManager.log
          IN /\ \A i \in 1 .. Len(log) :
                   IF log[i][1] = "init"
                   THEN i > 1 /\ log[i - 1] = <<"change", log[i][2]>>
                   ELSE /\ i > 1 => log[i - 1][1] = "init" /\ log[i - 1][2] # log[i][2]
             /\ log # <<>> => log[Len(log)][2] = sceneManager.currentScene
             /\ sceneManager.isTransitioning
                   <=> (log # <<>> /\ log[Len(log)][1] = "change"))
    /\ [][/\ pc = "idle" /\ timers' # timers
             => \E t \in timers \ timers' :
                   IF sceneManager.isTransitioning
                      \/ sceneManager.currentScene = TimerScene(t)
                   THEN sceneManager' = sceneManager
                   ELSE /\ sceneManager'.currentScene = TimerScene(t)
                        /\ sceneManager'.previousScene = sceneManager.currentScene
                        /\ sceneManager'.isTransitioning
                        /\ sceneManager'.transitionTimer = 0
          /\ sceneManager.isTransitioning /\ pc # "scene"
             => sceneManager' = sceneManager
          /\ sceneManager.isTransitioning /\ pc = "scene"
             => IF sceneManager.transitionTimer + deltaTime >= Ms(SceneTransitionMs)
                THEN /\ Len(sceneManager'.log) > Len(sceneManager.log)
                     /\ sceneManager'.log[Len(sceneManager.log) + 1]
                           = <<"init", sceneManager.currentScene>>
                ELSE sceneManager'
                       = [sceneManager EXCEPT !.transitionTimer = @ + deltaTime]
          /\ ~sceneManager.isTransitioning
             => \A i \in (Len(sceneManager.log) + 1) .. Len(sceneManager'.log) :
                   sceneManager'.log[i][1] # "init"]_vars

\* the start screen is up and initialised, after the victory screen was
C28_Witness ==
    /\ ~sceneManager.isTransitioning
    /\ sceneManager.currentScene = "start"
    /\ sceneManager.previousScene = "victory"
    /\ Len(sceneManager.log) = 6
    /\ gameState = ResetGameState

\* ------------------------------------------- the weapon manager on its own
\* upgradeWeapon() and reset() are called on the weapon manager of a new
\* player, in any order, MaxWeaponCalls times in all.
MaxWeaponCalls == 7

InitWeapon ==
    /\ EngineConstructed
    /\ objs = <<ArmedPlayer(Width \div 2, Height - Px(50))>>
    /\ gameObjects = <<1>>
    /\ grid = EmptyGrid
    /\ collisionPairs = {}
    /\ hookLog = <<>> /\ callLog = <<>>
    /\ gameState = ResetGameState
    /\ nearby = <<>> /\ query = NoQuery /\ overlap = NoOverlap /\ calls = <<>>

weaponFrame == <<engineVars, inputVars, grid, historyVars, nearby, query, overlap>>

\* player.weaponManager.upgradeWeapon()
UpgradeWeapon ==
    /\ Len(calls) < MaxWeaponCalls
    /\ SetWorld(WeaponManagerUpgrade(World, 1))
    /\ calls' = Append(calls, "upgradeWeapon")
    /\ UNCHANGED weaponFrame

\* player.weaponManager.reset()
ResetWeapon ==
    /\ Len(calls) < MaxWeaponCalls
    /\ SetWorld(WeaponManagerReset(World, 1))
    /\ calls' = Append(calls, "reset")
    /\ UNCHANGED weaponFrame

NextWeapon == UpgradeWeapon \/ ResetWeapon

SpecWeapon == InitWeapon /\ [][NextWeapon]_vars

\* how many times upgradeWeapon() has been called since the last reset()
RECURSIVE UpgradesSinceReset(_)
UpgradesSinceReset(cs) ==
    IF cs = <<>> \/ cs[Len(cs)] = "reset" THEN 0
    ELSE 1 + UpgradesSinceReset(SubSeq(cs, 1, Len(cs) - 1))

\* C31: over any sequence of upgradeWeapon() and reset() calls the weapon
\* index stays in 0..3 and the weapon level in 1..3; each upgradeWeapon()
\* moves the weapon one step along basic, rapid, spread, laser and leaves
\* the level alone, and at laser raises the level by one, up to 3 and not
\* beyond; reset() gives the basic weapon, index 0 and level 1.  So after
\* n calls of upgradeWeapon() since the last reset() the index is the
\* lesser of n and 3 and the level is 1, 2 from the fourth call and 3 from
\* the fifth.
C31_WeaponProgression ==
    /\ [](LET p == objs[1]
              n == UpgradesSinceReset(calls)
          IN /\ p.weaponIndex \in 0 .. 3 /\ p.weaponLevel \in 1 .. 3
             /\ p.weaponIndex = IF n < 3 THEN n ELSE 3
             /\ p.weaponLevel = IF n <= 3 THEN 1 ELSE IF n = 4 THEN 2 ELSE 3
             /\ gameState.weaponLevel = p.weaponLevel
             /\ n = 0 => /\ p.weaponDamage = 1 /\ p.fireRate = 300
                         /\ p.bulletSpeed = 400)
    /\ [][LET p == objs[1]
              q == objs'[1]
          IN IF calls'[Len(calls')] = "reset"
             THEN q.weaponIndex = 0 /\ q.weaponLevel = 1
             ELSE IF p.weaponIndex < 3
             THEN q.weaponIndex = p.weaponIndex + 1 /\ q.weaponLevel = p.weaponLevel
             ELSE /\ q.weaponIndex = 3
                  /\ q.weaponLevel = IF p.weaponLevel < 3 THEN p.weaponLevel + 1 ELSE 3]_vars

\* C31 witness: the laser at level 3 has been upgraded once more, after a
\* reset earlier on
C31_Witness ==
    /\ UpgradesSinceReset(calls) = 6
    /\ \E i \in 1 .. Len(calls) : calls[i] = "reset"
    /\ objs[1].weaponIndex = 3 /\ objs[1].weaponLevel = 3

\* --------------------------------------------- the enemies' shooting
\* EnemyShootingSystem.levelSettings[level].maxBullets, which are also the
\* shootingConfig.maxBullets of the level configurations
LevelMaxBullets == <<8, 12>>

\* EnemyShootingSystem.setLevel: maxSimultaneousBullets of the level that
\* onLevelStart has set
MaxSimultaneousBullets(level) ==
    (LevelMaxBullets[level] * (100 + (level - 1) * 15)) \div 100

\* enemiesWithDistance.sort((a, b) => a.distance - b.distance); the sort
\* keeps the registry order of enemies at the same distance
SortedByDistance(ids, os, px) ==
    LET d(i) == Abs(os[ids[i]].x - px)
        before(i) == {j \in 1 .. Len(ids) : d(j) < d(i) \/ (d(j) = d(i) /\ j < i)}
    IN [k \in 1 .. Len(ids) |->
           ids[CHOOSE i \in 1 .. Len(ids) : Cardinality(before(i)) = k - 1]]

\* EnemyShootingSystem.setBulletCooldown, the multiplier as num / den
SetBulletCooldown(e, num, den) ==
    [e EXCEPT !.canShoot = FALSE, !.shootCooldown = (e.shootCooldownTime * num) \div den]

\* EnemyShootingSystem.shootStraight
ShootStraight(w, eid) ==
    LET e == w.objs[eid]
    IN AddGameObject([w EXCEPT !.objs[eid] = SetBulletCooldown(@, 1, 1)],
                     NewBullet(e.x, e.y + e.height \div 2 + Px(5),
                               0, Vel(EnemyBulletSpeed), FALSE))

AimedBulletSpeed == 250

\* EnemyShootingSystem.shootAimed
ShootAimed(w, eid, pid) ==
    LET e == w.objs[eid]
        dx == w.objs[pid].x - e.x
        dy == w.objs[pid].y - e.y
        distance == Isqrt(dx * dx + dy * dy)
    IN AddGameObject([w EXCEPT !.objs[eid] = SetBulletCooldown(@, 1, 1)],
                     NewBullet(e.x, e.y + e.height \div 2 + Px(5),
                               (dx * Vel(AimedBulletSpeed)) \div distance,
                               (dy * Vel(AimedBulletSpeed)) \div distance, FALSE))

\* EnemyShootingSystem.shootSpread: three bullets at the angles -0.3, 0 and
\* 0.3 (sin and cos of 0.3 in thousandths)
SpreadBulletSpeed == 180
EnemySpreadSin == 296
EnemySpreadCos == 955

ShootSpread(w, eid) ==
    LET e == w.objs[eid]
        y == e.y + e.height \div 2 + Px(5)
        vx == (Vel(SpreadBulletSpeed) * EnemySpreadSin) \div 1000
        vy == (Vel(SpreadBulletSpeed) * EnemySpreadCos) \div 1000
    IN [AddAll(w, <<NewBullet(e.x, y, 0 - vx, vy, FALSE),
                    NewBullet(e.x, y, 0, Vel(SpreadBulletSpeed), FALSE),
                    NewBullet(e.x, y, vx, vy, FALSE)>>)
           EXCEPT !.objs[eid] = SetBulletCooldown(@, 3, 2)]

\* EnemyShootingSystem.getShootPattern; special is the outcome of its
\* Math.random() test
GetShootPattern(e, special) ==
    CASE e.enemyType = "shooter" -> IF special THEN "aimed" ELSE "straight"
      [] e.enemyType = "strong" -> IF special THEN "spread" ELSE "straight"
      [] OTHER -> "straight"

\* EnemyShootingSystem.executeEnemyShoot; currentBulletCount is the count
\* that updateBulletCount took at the start of update()
ExecuteEnemyShoot(w, eid, pid, currentBulletCount, special) ==
    IF currentBulletCount >= MaxSimultaneousBullets(w.lm.currentLevel) THEN w
    ELSE CASE GetShootPattern(w.objs[eid], special) = "aimed" -> ShootAimed(w, eid, pid)
           [] GetShootPattern(w.objs[eid], special) = "spread" -> ShootSpread(w, eid)
           [] OTHER -> ShootStraight(w, eid)

\* the loop of strategicShooting over the enemies nearest to the player;
\* could holds the enemies whose canShoot && active was true when the
\* list was made, tries those whose Math.random() < shootChance
RECURSIVE ShootInTurn(_, _, _, _, _, _, _)
ShootInTurn(w, shooters, pid, could, currentBulletCount, tries, specials) ==
    IF shooters = <<>> THEN w
    ELSE LET eid == Head(shooters)
             w1 == IF eid \in could /\ eid \in tries
                   THEN ExecuteEnemyShoot(w, eid, pid, currentBulletCount, eid \in specials)
                   ELSE w
         IN ShootInTurn(w1, Tail(shooters), pid, could, currentBulletCount, tries, specials)

MaxShooters == 3

\* the enemies that strategicShooting gives a chance to shoot
NearestEnemies(reg, os) ==
    LET pid == FindPlayer(reg, os)
        enemies == SelectSeq(reg, LAMBDA id : os[id].cls = "Enemy")
    IN IF pid = 0 THEN <<>>
       ELSE SubSeq(SortedByDistance(enemies, os, os[pid].x), 1,
                   Min(MaxShooters, Len(enemies)))

\* EnemyShootingSystem.strategicShooting
StrategicShooting(w, currentBulletCount, tries, specials) ==
    LET pid == FindPlayer(w.reg, w.objs)
        nearest == NearestEnemies(w.reg, w.objs)
        could == {id \in SeqToSet(nearest) : w.objs[id].canShoot /\ w.objs[id].active}
    IN IF pid = 0 THEN w
       ELSE ShootInTurn(w, nearest, pid, could, currentBulletCount, tries, specials)

\* EnemyShootingSystem.update: updateBulletCount, then updateEnemyShooting
EnemyShootingSystemUpdate(w, tries, specials) ==
    LET currentBulletCount == EnemyBulletCount(w.reg, w.objs)
    IN IF ~(\E i \in 1 .. Len(w.reg) : w.objs[w.reg[i]].cls = "Enemy") THEN w
       ELSE IF currentBulletCount >= MaxSimultaneousBullets(w.lm.currentLevel) THEN w
       ELSE StrategicShooting(w, currentBulletCount, tries, specials)

\* A level in play: the player, the three enemies that are left of the
\* level's formation (of level 2 a shooter and two strong ones), all able to
\* shoot, and the enemy bullets in flight that earlier shots have left:
\* none, or one less than the level's limit.  A frame is the loop of
\* GameEngine.update over the registry, from its last object down, and
\* then the update of the shooting system, which the gameSystemManager
\* object makes as the first object of the registry.
MaxShootingFrames == 2

RemainingCells == <<{<<0, 3>>, <<1, 3>>, <<2, 4>>}, {<<2, 4>>, <<3, 4>>, <<3, 5>>}>>

\* an enemy bullet on its way down, clear of the player
InFlightBullet(i) ==
    NewBullet(Px(100 + 40 * i), Px(200), 0, Vel(EnemyBulletSpeed), FALSE)

LevelInPlay(level, inFlight) ==
    <<ArmedPlayer(Width \div 2, Height - Px(50))>>
        \o [n \in 1 .. 3 |->
               LET cell == CHOOSE c \in RemainingCells[level] :
                              Cardinality({b \in RemainingCells[level] :
                                              b[1] * FormationCols[level] + b[2]
                                                  < c[1] * FormationCols[level] + c[2]}) = n - 1
               IN FormationEnemy(level, cell[1], cell[2])]
        \o [i \in 1 .. inFlight |-> InFlightBullet(i)]

InitShooting ==
    /\ now = 0 /\ lastTime = 0 /\ isRunning = TRUE /\ isPaused = FALSE
    /\ pc = "update" /\ deltaTime = FrameInterval /\ scheduled = {1}
    /\ keys = {} /\ keysPressed = {}
    /\ \E level \in 1 .. MaxLevel :
          \E inFlight \in {0, MaxSimultaneousBullets(level) - 1} :
             /\ objs = LevelInPlay(level, inFlight)
             /\ gameObjects = [i \in 1 .. (4 + inFlight) |-> i]
             /\ loopI = 4 + inFlight
             /\ levelManager = [currentLevel |-> level, levelState |-> "playing",
                                transitionTimer |-> 0, fired |-> <<>>]
             /\ enemyFormation = [direction |-> 1, isMovingDown |-> FALSE,
                                  moveDownTimer |-> 0,
                                  enemies |-> <<2, 3, 4>>,
                                  moveSpeed |-> Vel(FormationBaseSpeed[level]),
                                  currentLevel |-> level]
             /\ gameState = [ResetGameState EXCEPT !.gameStatus = "playing",
                                                   !.level = level]
    /\ sceneManager = [currentScene |-> "game", previousScene |-> "start",
                       isTransitioning |-> FALSE, transitionTimer |-> 0,
                       log |-> <<<<"change", "game">>, <<"init", "game">>>>]
    /\ collisionPairs = {} /\ hookLog = <<>> /\ callLog = <<>> /\ timers = {}
    /\ grid = EmptyGrid
    /\ ticks = 0 /\ frameTrace = <<>> /\ presses = 0 /\ toggles = 0
    /\ passRegistry = <<>> /\ collisionFlagged = {} /\ reaped = {}
    /\ nearby = <<>> /\ query = NoQuery /\ overlap = NoOverlap /\ calls = <<>>

shootingFrame == <<now, lastTime, isRunning, isPaused, deltaTime, scheduled,
                   inputVars, grid, frameTrace, presses, toggles, passRegistry,
                   collisionFlagged, reaped, nearby, query, overlap>>

\* one turn of update()'s loop: gameObjects[i].update(deltaTime), an enemy
\* shooting on its own or not, then the splice when the object is flagged
ShootingUpdateStep ==
    /\ pc = "update" /\ loopI > 0
    /\ LET id == gameObjects[loopI]
       IN \E shoots \in BOOLEAN :
             LET w1 == ObjectUpdate(World, id, deltaTime, keys, keysPressed, shoots)
             IN SetWorld(IF w1.objs[id].shouldDestroy
                         THEN [w1 EXCEPT !.reg = Splice(@, loopI)] ELSE w1)
    /\ loopI' = loopI - 1
    /\ calls' = IF objs'[gameObjects[loopI]].cls = "Enemy"
                   /\ objs[gameObjects[loopI]].canShoot
                   /\ ~objs'[gameObjects[loopI]].canShoot
                THEN Append(calls, "shoot") ELSE calls
    /\ UNCHANGED <<pc, ticks, shootingFrame>>

\* the end of the loop: enemyShootingSystem.update(deltaTime), and the
\* next frame if there is one
ShootingSystemUpdate ==
    /\ pc = "update" /\ loopI = 0
    /\ \E tries \in SUBSET SeqToSet(NearestEnemies(gameObjects, objs)) :
          \E specials \in SUBSET tries :
             SetWorld(EnemyShootingSystemUpdate(World, tries, specials))
    /\ calls' = IF EnemyBulletCount(gameObjects', objs') > EnemyBulletCount(gameObjects, objs)
                THEN Append(calls, "shooting") ELSE calls
    /\ ticks' = ticks + 1
    /\ loopI' = IF ticks + 1 < MaxShootingFrames THEN Len(gameObjects') ELSE 0
    /\ pc' = IF ticks + 1 < MaxShootingFrames THEN "update" ELSE "idle"
    /\ UNCHANGED shootingFrame

NextShooting == ShootingUpdateStep \/ ShootingSystemUpdate

SpecShooting == InitShooting /\ [][NextShooting]_vars

\* C32: the number of enemy bullets in the registry never exceeds the
\* shooting system's maxSimultaneousBullets, whatever shots the enemies
\* fire: the straight, aimed and spread shots of the shooting system, and
\* their own random shots.
C32_BulletLimit ==
    EnemyBulletCount(gameObjects, objs) <= MaxSimultaneousBullets(levelManager.currentLevel)

\* ----------------------------------------- the game state on its own
\* loseLife, gainLife and resetGameState are called on the game state
\* manager of a new engine, in any order, MaxLifeCalls times in all; the
\* amounts are numbers of lives: one, or as many as a new game has.
MaxLifeCalls == 5
LifeAmounts == {1, InitialLives}

InitLives ==
    /\ EngineConstructed
    /\ objs = <<>> /\ gameObjects = <<>>
    /\ grid = EmptyGrid
    /\ collisionPairs = {}
    /\ hookLog = <<>> /\ callLog = <<>>
    /\ gameState = ResetGameState
    /\ nearby = <<>> /\ query = NoQuery /\ overlap = NoOverlap /\ calls = <<>>

livesFrame == <<weaponFrame, gameObjects, objs, collisionPairs, logVars, managerVars>>

\* gameStateManager.loseLife(amount)
LoseLifeCall ==
    /\ Len(calls) < MaxLifeCalls
    /\ \E amount \in LifeAmounts :
          /\ gameState' = LoseLife(gameState, amount)
          /\ calls' = Append(calls, <<"loseLife", amount>>)
    /\ UNCHANGED livesFrame

\* gameStateManager.gainLife(amount)
GainLifeCall ==
    /\ Len(calls) < MaxLifeCalls
    /\ \E amount \in LifeAmounts :
          /\ gameState' = GainLife(gameState, amount)
          /\ calls' = Append(calls, <<"gainLife", amount>>)
    /\ UNCHANGED livesFrame

\* gameStateManager.resetGameState()
ResetGameStateCall ==
    /\ Len(calls) < MaxLifeCalls
    /\ gameState' = ResetGameState
    /\ calls' = Append(calls, <<"resetGameState", 0>>)
    /\ UNCHANGED livesFrame

NextLives == LoseLifeCall \/ GainLifeCall \/ ResetGameStateCall

SpecLives == InitLives /\ [][NextLives]_vars

\* C33: after any sequence of loseLife, gainLife and resetGameState calls
\* the lives are not negative, and a loseLife that leaves the lives at 0
\* leaves the game status at "gameOver".
C33_LivesNotNegative ==
    /\ [](gameState.lives >= 0)
    /\ [][(calls'[Len(calls')][1] = "loseLife" /\ gameState'.lives = 0)
              => gameState'.gameStatus = "gameOver"]_vars

\* C33 witness: after lives were gained and the state was reset, a loseLife
\* of more lives than are left has brought the lives to 0
C33_Witness ==
    /\ Len(calls) >= 4
    /\ calls[Len(calls)] = <<"loseLife", InitialLives>>
    /\ calls[Len(calls) - 1] = <<"loseLife", 1>>
    /\ \E i \in 1 .. Len(calls) : calls[i][1] = "gainLife"
    /\ \E i \in 1 .. Len(calls) : calls[i][1] = "resetGameState"
    /\ gameState.lives = 0 /\ gameState.gameStatus = "gameOver"

\* ------------------------------------------------ one loop at a time
\* C34: whatever start(), stop() and pause toggles come between the ticks,
\* a stop() followed by a start() before the requested tick has run
\* included, at most one request for gameLoop is outstanding at any moment.
C34_OneOutstandingTick == Cardinality(scheduled) <= 1

\* ------------------------------------------- the pause key and the scene
\* C35: a press of the pause key changes the engine's pause flag and
\* nothing else: from an unpaused engine in the game scene, once the key
\* has been pressed in two ticks (the first pauses, the second resumes)
\* the engine is unpaused, the scene is still the game scene and no scene
\* transition has begun.
C35_PauseKeepsScene ==
    (toggles = 2 /\ pc = "idle")
        => /\ ~isPaused
           /\ sceneManager.currentScene = "game"
           /\ ~sceneManager.isTransitioning

\* -------------------------------------------- back from the pause scene
\* The pause scene has just been entered from a game in progress: level 2,
\* a score, a life lost, the rapid weapon, and two enemies left of the
\* formation, in the second tick of the game.  The engine runs unpaused;
\* Enter resumes the game, Escape leaves for the start scene.
PausedObjects ==
    <<[WithWeapon(ArmedPlayer(Px(300), Height - Px(50)), 1) EXCEPT !.health = 2],
      FormationEnemy(MaxLevel, 2, 4), FormationEnemy(MaxLevel, 3, 5)>>

PausedGameState ==
    [score |-> 150, lives |-> 2, level |-> MaxLevel, weaponLevel |-> 1,
     gameStatus |-> "playing"]

InitResume ==
    /\ now = FrameInterval /\ lastTime = FrameInterval
    /\ isRunning = TRUE /\ isPaused = FALSE
    /\ pc = "idle" /\ loopI = 0 /\ deltaTime = FrameInterval
    /\ scheduled = {1}
    /\ keys = {} /\ keysPressed = {}
    /\ objs = PausedObjects
    /\ gameObjects = <<1, 2, 3>>
    /\ enemyFormation = [direction |-> 1, isMovingDown |-> FALSE,
                         moveDownTimer |-> 0,
                         enemies |-> <<2, 3>>,
                         moveSpeed |-> Vel(FormationBaseSpeed[MaxLevel]),
                         currentLevel |-> MaxLevel]
    /\ gameState = PausedGameState
    /\ sceneManager = [currentScene |-> "pause", previousScene |-> "game",
                       isTransitioning |-> TRUE, transitionTimer |-> 0,
                       log |-> <<<<"change", "game">>, <<"init", "game">>,
                                 <<"change", "pause">>>>]
    /\ levelManager = [currentLevel |-> MaxLevel, levelState |-> "playing",
                       transitionTimer |-> 0, fired |-> <<>>]
    /\ timers = {}
    /\ grid = EmptyGrid /\ collisionPairs = {}
    /\ hookLog = <<>> /\ callLog = <<>>
    /\ ticks = 2 /\ frameTrace = <<>> /\ presses = 0 /\ toggles = 0
    /\ passRegistry = <<>> /\ collisionFlagged = {} /\ reaped = {}
    /\ nearby = <<>> /\ query = NoQuery /\ overlap = NoOverlap /\ calls = <<>>

NextResume ==
    \/ TickLevelUpdate \/ RunStep
    \/ SceneKeyDown \/ KeyUp

SpecResume == InitResume /\ [][NextResume]_vars

\* the transition from the pause scene back to the game scene is complete
Resumed ==
    /\ sceneManager.currentScene = "game" /\ ~sceneManager.isTransitioning
    /\ sceneManager.previousScene = "pause"
    /\ sceneManager.log[Len(sceneManager.log)] = <<"init", "game">>

\* C36: resuming from the pause scene leaves the game in progress as it
\* was when the pause scene was entered: once the transition back to the
\* game scene is complete the registry holds the same player and enemies
\* (bullets that the enemies have shot since aside), and the score, the
\* lives, the level and the weapon are the same.
C36_ResumeKeepsGame ==
    Resumed
        => /\ SelectSeq(gameObjects, LAMBDA id : objs[id].cls # "Bullet") = <<1, 2, 3>>
           /\ gameState.score = PausedGameState.score
           /\ gameState.lives = PausedGameState.lives
           /\ gameState.level = PausedGameState.level
           /\ gameState.weaponLevel = PausedGameState.weaponLevel
           /\ objs[1].weaponIndex = PausedObjects[1].weaponIndex

\* ------------------------------------------------ the enemy formation
FormationDropDistance == 30
FormationEdgeMargin == 50
MoveDownDurationMs == 500

\* the enemies of the formation, each changed by f
MapEnemies(w, f(_)) ==
    [w EXCEPT !.objs = [id \in DOMAIN w.objs |->
                           IF id \in SeqToSet(w.ef.enemies) THEN f(w.objs[id])
                           ELSE w.objs[id]]]

\* EnemyFormation.updateHorizontalMovement, with startDownwardMovement
UpdateHorizontalMovement(w) ==
    LET es == SeqToSet(w.ef.enemies)
        leftmostX == CHOOSE x \in {w.objs[e].x - w.objs[e].width \div 2 : e \in es} :
                        \A e \in es : x <= w.objs[e].x - w.objs[e].width \div 2
        rightmostX == CHOOSE x \in {w.objs[e].x + w.objs[e].width \div 2 : e \in es} :
                         \A e \in es : x >= w.objs[e].x + w.objs[e].width \div 2
        shouldChangeDirection ==
            \/ w.ef.direction > 0 /\ rightmostX >= Width - Px(FormationEdgeMargin)
            \/ w.ef.direction < 0 /\ leftmostX <= Px(FormationEdgeMargin)
        down(e) == [e EXCEPT !.vx = 0,
                             !.vy = Vel((FormationDropDistance * 1000) \div MoveDownDurationMs)]
        along(e) == [e EXCEPT !.direction = w.ef.direction, !.speed = w.ef.moveSpeed]
    IN IF shouldChangeDirection
       THEN MapEnemies([w EXCEPT !.ef.isMovingDown = TRUE, !.ef.moveDownTimer = 0,
                                 !.ef.direction = 0 - @],
                       down)
       ELSE MapEnemies(w, along)

\* EnemyFormation.updateDownwardMovement
UpdateDownwardMovement(w, dt) ==
    LET w1 == [w EXCEPT !.ef.moveDownTimer = @ + dt]
        back(e) == [e EXCEPT !.direction = w.ef.direction, !.speed = w.ef.moveSpeed,
                             !.vx = w.ef.moveSpeed * w.ef.direction, !.vy = 0]
    IN IF w1.ef.moveDownTimer >= Ms(MoveDownDurationMs)
       THEN MapEnemies([w1 EXCEPT !.ef.isMovingDown = FALSE], back)
       ELSE w1

\* EnemyFormation.updateSpeed: from half as fast again with no enemy left
\* down to the base speed with all of them
UpdateSpeed(w) ==
    LET level == IF w.ef.currentLevel \in 1 .. MaxLevel THEN w.ef.currentLevel ELSE MaxLevel
        totalEnemies == FormationRows[level] * FormationCols[level]
        moveSpeed == (Vel(FormationBaseSpeed[level]) * (3 * totalEnemies - Len(w.ef.enemies)))
                         \div (2 * totalEnemies)
        faster(e) == [e EXCEPT !.speed = moveSpeed]
        w1 == [w EXCEPT !.ef.moveSpeed = moveSpeed]
    IN IF w.ef.isMovingDown THEN w1 ELSE MapEnemies(w1, faster)

\* EnemyFormation.checkBottomReached, with GameEngine.onGameOver
CheckBottomReached(w, t) ==
    IF \E e \in SeqToSet(w.ef.enemies) :
          w.objs[e].y + w.objs[e].height \div 2 >= Height - Px(100)
    THEN [w EXCEPT !.timers = @ \cup {TimerAt(t + Ms(GameOverDelayMs), "showGameOver")}]
    ELSE w

\* EnemyFormation.update(deltaTime)
EnemyFormationUpdate(w, dt, t) ==
    LET w1 == [w EXCEPT !.ef.enemies = SelectSeq(@, LAMBDA e : w.objs[e].active)]
        w2 == IF w1.ef.isMovingDown THEN UpdateDownwardMovement(w1, dt)
              ELSE UpdateHorizontalMovement(w1)
    IN IF w1.ef.enemies = <<>> THEN w1
       ELSE CheckBottomReached(UpdateSpeed(w2), t)

\* ------------------------------------------------ from the page load on
\* The page has loaded: the engine is constructed, initGame has registered
\* the gameSystemManager object and start() has run; the start scene has
\* been showing for two ticks.  Enter starts the game.
NewSystemManager == [BaseObject("System", 0, 0) EXCEPT !.active = FALSE]

InitSession ==
    /\ now = 2 * FrameInterval /\ lastTime = 2 * FrameInterval
    /\ isRunning = TRUE /\ isPaused = FALSE
    /\ pc = "idle" /\ loopI = 0 /\ deltaTime = FrameInterval /\ scheduled = {1}
    /\ keys = {} /\ keysPressed = {}
    /\ sceneManager = [currentScene |-> "start", previousScene |-> "none",
                       isTransitioning |-> FALSE, transitionTimer |-> 0,
                       log |-> <<>>]
    /\ levelManager = [currentLevel |-> 1, levelState |-> "playing",
                       transitionTimer |-> 0, fired |-> <<>>]
    /\ enemyFormation = [direction |-> 1, isMovingDown |-> FALSE, moveDownTimer |-> 0,
                         enemies |-> <<>>, moveSpeed |-> Vel(50), currentLevel |-> 1]
    /\ timers = {}
    /\ objs = <<NewSystemManager>> /\ gameObjects = <<1>>
    /\ grid = EmptyGrid /\ collisionPairs = {}
    /\ hookLog = <<>> /\ callLog = <<>>
    /\ gameState = ResetGameState
    /\ ticks = 2 /\ frameTrace = <<>> /\ presses = 0 /\ toggles = 0
    /\ passRegistry = <<>> /\ collisionFlagged = {} /\ reaped = {}
    /\ nearby = <<>> /\ query = NoQuery /\ overlap = NoOverlap /\ calls = <<>>

\* one turn of update()'s loop for the gameSystemManager object: in the
\* game scene enemyFormation.update and enemyShootingSystem.update
SystemUpdateStep ==
    /\ pc = "update"
    /\ objs[gameObjects[loopI]].cls = "System"
    /\ IF IsInGame(sceneManager)
       THEN /\ \E tries \in SUBSET SeqToSet(NearestEnemies(gameObjects, objs)) :
                  \E specials \in SUBSET tries :
                     SetWorld(EnemyShootingSystemUpdate(
                                  EnemyFormationUpdate(World, deltaTime, now),
                                  tries, specials))
            /\ frameTrace' = Append(frameTrace, "system")
       ELSE UNCHANGED <<worldVars, frameTrace>>
    /\ loopI' = loopI - 1
    /\ pc' = IF loopI = 1 THEN "scene" ELSE "update"
    /\ collisionFlagged' = IF loopI = 1 THEN {} ELSE collisionFlagged
    /\ reaped' = reaped
    /\ UNCHANGED <<now, lastTime, isRunning, isPaused, deltaTime, scheduled,
                   inputVars, grid, ticks, presses, toggles, passRegistry, probeVars>>

NextSession ==
    \/ TickLevelUpdate \/ RunStep \/ SystemUpdateStep
    \/ SceneKeyDown \/ KeyUp

SpecSession == InitSession /\ [][NextSession]_vars

\* restartGame has run: the game scene has been initialised
Restarted == Contains(sceneManager.log, <<"init", "game">>)

\* C37: the level manager declares a level cleared (levelState from playing
\* to cleared, with the bonus and the level-clear event) only when the
\* level's formation has been spawned and none of its enemies is active;
\* never during the transition from the start scene to the game scene,
\* before restartGame has made the enemies of the level.
C37_ClearAfterSpawn ==
    [][(levelManager.levelState = "playing" /\ levelManager'.levelState = "cleared")
          => /\ Restarted
             /\ ~(sceneManager'.isTransitioning /\ sceneManager'.previousScene = "start")
             /\ \A id \in SeqToSet(gameObjects') :
                   objs'[id].cls = "Enemy" => ~objs'[id].active]_vars

\* C38: after a restartGame the enemy formation and the enemy shooting
\* system go on being updated in every step made in the game scene: the
\* gameSystemManager object that initGame registered is still in the
\* registry, and a step that began in the game scene has updated the two.
C38_SystemsStillUpdated ==
    (Restarted /\ IsInGame(sceneManager))
        => /\ \E id \in SeqToSet(gameObjects) : objs[id].cls = "System"
           /\ (pc \in {"scene", "collide"} /\ ~sceneManager.isTransitioning)
                 => Contains(frameTrace, "system")

====
